---- MODULE Spec2Model ----
(***************************************************************************)
(* chart_maker pipeline: normalize -> add_metrics -> build_summary_table.  *)
(*                                                                         *)
(* Representation.                                                         *)
(*   - A table (pandas DataFrame) is a sequence of records, in row order.  *)
(*   - A string is the sequence of its character codes, so that string     *)
(*     concatenation is \o and string order is lexicographic on codes.     *)
(*   - An optional value (NaN / NaT / pd.NA / missing JSON field) is the   *)
(*     empty sequence <<>>; a present value v is <<v>>.                    *)
(*   - A timestamp is a number of minutes since 2025-12-17 00:00.          *)
(*   - A rate (a quotient of two integers) is a reduced fraction <<n, d>>  *)
(*     with d > 0.                                                         *)
(***************************************************************************)
EXTENDS Integers, Sequences, FiniteSets, TLC

\* ------------------------------------------------------------------ bounds
MaxRecords == 3
MaxRows == 3
MaxDefective == 2
MaxRender == 2
MaxFetches == 3
MaxTargets == 3
MaxText == 4
MaxBulk == 20

\* ----------------------------------------------------------- sort_values
\* sort_values on ONE column sorts with kind="quicksort", numpy's
\* introsort: a range whose last row is at most this many rows after its
\* first is sorted by insertion, and rows of equal value keep their input
\* order; a longer range is partitioned, and the order of rows of equal
\* value is not determined.  (sort_values on several columns sorts with
\* lexsort, which is stable.)
SmallSort == 16

\* ------------------------------------------------------- optional values
NA == <<>>
Some(v) == <<v>>
IsNA(x) == x = <<>>
NotNA(x) == x # <<>>
Val(x) == x[1]
\* A JSON string found where a number is expected, and the float +inf.
Text(s) == <<"str", Len(s), s>>
IsText(x) == Len(x) = 3
TextOf(x) == x[3]
PosInf == <<1, 0>>

\* ----------------------------------------------------------------- strings
\* "G", "G::1", "M", "1", "1::1", "2" as character codes
StrG == <<71>>
StrGcc1 == <<71, 58, 58, 49>>
StrM == <<77>>
Str1 == <<49>>
Str1cc1 == <<49, 58, 58, 49>>
Str2 == <<50>>
\* "::", "nan", "None", "NaT"
StrSep == <<58, 58>>
StrNan == <<110, 97, 110>>
StrNone == <<78, 111, 110, 101>>
StrNaT == <<78, 97, 84>>
\* "x", "9", "inf"
StrX == <<120>>
Str9 == <<57>>
StrInf == <<105, 110, 102>>

\* Python str comparison: lexicographic on code points, a proper prefix first.
\* FirstDiff is the first position at which a and b differ, or one past the
\* shorter of the two.
MinLen(a, b) == IF Len(a) < Len(b) THEN Len(a) ELSE Len(b)

FirstDiff(a, b, m) ==
    CHOOSE i \in 1..(m + 1) :
        /\ i = m + 1 \/ a[i] # b[i]
        /\ SubSeq(a, 1, i - 1) = SubSeq(b, 1, i - 1)

StrLessAt(a, b, d) ==
    IF d > Len(a) \/ d > Len(b) THEN Len(a) < Len(b) ELSE a[d] < b[d]

StrLess(a, b) == StrLessAt(a, b, FirstDiff(a, b, MinLen(a, b)))

\* str(n).zfill(2) for 0 <= n <= 99
Digit2(n) == <<48 + (n \div 10), 48 + (n % 10)>>

\* ------------------------------------------------------------ stable sort
\* Stable ascending sort of a sequence s under a strict weak order given as
\* the table less[i][j] ("row i sorts before row j").
\* Rank(less)[i] is the position of row i in the sorted sequence: rows that
\* compare equal keep their relative order.
Rank(less) ==
    SubSeq([i \in 1..Len(less) |->
               Cardinality({j \in 1..Len(less) :
                   \/ less[j][i]
                   \/ (~less[i][j] /\ j < i)}) + 1], 1, Len(less))

Permute(s, rank) ==
    SubSeq([k \in 1..Len(s) |-> s[CHOOSE i \in 1..Len(s) : rank[i] = k]],
           1, Len(s))

\* The table of comparisons is computed once.
StableSort(s, less) ==
    Permute(s, Rank(SubSeq([i \in 1..Len(s) |-> SubSeq(less[i], 1, Len(s))],
                           1, Len(s))))

\* df[mask]: the rows i >= from of s with mask[i] true, in row order.
RECURSIVE SelectRows(_, _, _)
SelectRows(s, mask, from) ==
    IF from > Len(s) THEN <<>>
    ELSE (IF mask[from] THEN <<s[from]>> ELSE <<>>)
         \o SelectRows(s, mask, from + 1)

\* -------------------------------------------------------------- raw input
\* One JSON object of the input file.  platform / song_id are optional
\* strings, hour / minute / total_plays / total_listeners are optional
\* values: <<>> is a missing key, <<n>> a number and Text(s) a JSON string.
Platforms == {Some(StrG), Some(StrGcc1)}
SongIds == {Some(Str1), Some(Str1cc1)}
Dates == {"2025-12-17", "2025-13-45"}
Hours == {Some(10)}
Minutes == {NA, Some(10)}
Plays == {Some(100), Some(80)}
Listeners == {Some(50)}

\* The songs of the input: ("G", "1"), ("G", "1::1") and ("G::1", "1").
RawRecords ==
    {r \in [platform : Platforms, song_id : SongIds, date : Dates,
            hour : Hours, minute : Minutes, total_plays : Plays,
            total_listeners : Listeners] :
        ~(r.platform = Some(StrGcc1) /\ r.song_id = Some(Str1cc1))}

\* Records with field-level defects: no platform, a date that is not a
\* calendar date, an hour that is missing, "x", "9" or "inf", a counter that
\* is missing or "x".
DefectPlatforms == {NA, Some(StrG)}
DefectHours == {NA, Some(9), Text(StrX), Text(Str9), Text(StrInf)}
DefectPlays == {NA, Some(100), Text(StrX)}

DefectiveRecords ==
    [platform : DefectPlatforms, song_id : {Some(Str1)}, date : Dates,
     hour : DefectHours, minute : {Some(10)}, total_plays : DefectPlays,
     total_listeners : Listeners]

\* Line n of a file in which a song was logged many times within one
\* minute, the play count growing by one from line to line: the records of
\* a song collide on one key and differ in total_plays.  The first song
\* fills more lines than the key sort handles by insertion, the lines after
\* them are of a second song.
BulkRecord(n) ==
    [platform |-> Some(StrG),
     song_id |-> IF n <= SmallSort + 2 THEN Some(Str1) ELSE Some(Str2),
     date |-> "2025-12-17", hour |-> Some(10), minute |-> Some(10),
     total_plays |-> Some(n), total_listeners |-> Some(50)]

\* Row n of a long table of one song handed to add_metrics directly: the
\* first row sampled at 10:10, all later rows at 10:00.
BulkRow(n) ==
    [platform |-> StrG, song_id |-> Str1,
     timestamp |-> IF n = 1 THEN Some(610) ELSE Some(600),
     total_plays |-> Some(n), total_listeners |-> Some(50)]

\* Rows of a table handed to add_metrics directly (as the unit tests do):
\* timestamps are minutes since 2025-12-17 00:00 (600 is 10:00).
\* The songs are ("G", "1"), ("G", "2") and ("M", "1"); the counters are
\* pairs <<total_plays, total_listeners>>.
MetricSongs == {<<StrG, Str1>>, <<StrG, Str2>>, <<StrM, Str1>>}
MetricTimestamps == {Some(600), Some(610)}
MetricCounters == {<<NA, Some(50)>>, <<Some(80), Some(50)>>,
                   <<Some(100), Some(40)>>}

\* Rows of one time series per song with unevenly spaced samples (10:00,
\* 10:10, 10:15), so that a group can hold several different rates.
SeriesSongs == {<<StrG, Str1>>, <<StrM, Str1>>}
SeriesTimestamps == {Some(600), Some(610), Some(615)}

SeriesRows ==
    {[platform |-> g[1], song_id |-> g[2], timestamp |-> ts,
      total_plays |-> c[1], total_listeners |-> c[2]] :
        g \in SeriesSongs, ts \in SeriesTimestamps, c \in MetricCounters}

CanonicalRows ==
    {[platform |-> g[1], song_id |-> g[2], timestamp |-> ts,
      total_plays |-> c[1], total_listeners |-> c[2]] :
        g \in MetricSongs, ts \in MetricTimestamps, c \in MetricCounters}

\* chart_maker: the tables of one run of the pipeline.
VARIABLES stage, df_raw, df_norm, dup_count, df_metrics, num_anomalies,
          df_summary, anomalies_per_platform

\* chart_maker.main.cmd_render: the arguments of the call and the files it
\* has written.
VARIABLES render_args, written

\* music_metrics_collector.fetcher.Fetcher: its mode, whether its browser
\* is running, and for every fetch_html call the strategies it invoked and
\* how it ended.
VARIABLES fetcher_mode, browser, fetch_log

\* music_metrics_collector.main.collect_metrics: the configuration (mode,
\* enabled platforms and targets), the position of the loop, the
\* statistics, the Fetcher objects created so far, what happened to every
\* target processed so far and how the call ended.
VARIABLES config_mode, enabled_platforms, targets, cursor, stats, fetchers,
          processed, collect_state

\* music_metrics_collector.normalizer.normalize_number: the text handed in
\* and the value returned.
VARIABLES text, number

pipeline_vars == <<stage, df_raw, df_norm, dup_count, df_metrics,
                   num_anomalies, df_summary, anomalies_per_platform>>

render_vars == <<render_args, written>>

fetcher_vars == <<fetcher_mode, browser, fetch_log>>

collector_vars == <<config_mode, enabled_platforms, targets, cursor, stats,
                    fetchers, processed, collect_state>>

number_vars == <<text, number>>

\* Everything outside the pipeline's tables.
other_vars == <<render_vars, fetcher_vars, collector_vars, number_vars>>

vars == <<pipeline_vars, other_vars>>

\* ------------------------------------------------------ DataFrame objects
\* A call frame of a pipeline stage: heap[a] is the table stored in the
\* DataFrame object at address a, and df is the address the function's
\* working name is bound to (df in normalize and add_metrics; g and
\* df_summary in build_summary_table).  The function is entered with its
\* parameter bound to the caller's object, the only one there is.
Call(table) == [heap |-> <<table>>, df |-> 1]

\* The caller's object, read when the function has finished with the frame.
CallerTable(f) == f.heap[1]

\* The table the working name stands for.
TableOf(f) == f.heap[f.df]

\* Mutant of copy: no copy is made, the name stays bound to the same object.
copy_skipped(f) == f

\* df = df.copy(): a new object with the same rows, and the name bound to it.
copy(f) ==
    [heap |-> Append(f.heap, TableOf(f)), df |-> Len(f.heap) + 1]

\* df[col] = ... and df.loc[mask, col] = ...: the columns are written into
\* the object the name is bound to, whoever else holds it.
Assign(f, table) == [f EXCEPT !.heap[f.df] = table]

\* df = <expression that builds a table>: sort_values, groupby().tail(),
\* reset_index, drop, boolean indexing and pd.DataFrame(...) return a new
\* object, and the name is bound to it.
Rebind(f, table) ==
    [heap |-> Append(f.heap, table), df |-> Len(f.heap) + 1]

\* ------------------------------------------------------------ transform.py
\* Series.astype(str) of an object column: a present string is itself, a
\* field missing from this row is NaN ("nan") when some other row has the
\* column, and None ("None") when _ensure_columns created the column.
AsStr(x, columnExists) ==
    IF NotNA(x) THEN Val(x) ELSE IF columnExists THEN StrNan ELSE StrNone

RECURSIVE DigitsValue(_, _)
DigitsValue(s, n) ==
    IF n = 0 THEN 0 ELSE DigitsValue(s, n - 1) * 10 + (s[n] - 48)

\* The float a JSON string parses to: a run of decimal digits is its value,
\* "inf" is +inf, any other text modelled here is not a number.
ParseText(s) ==
    IF s = StrInf THEN PosInf
    ELSE IF s # <<>> /\ \A i \in 1..Len(s) : s[i] \in 48..57
         THEN Some(DigitsValue(s, Len(s)))
         ELSE NA

\* pd.to_numeric(errors="coerce"): a number stays, a string is parsed, and
\* what cannot be parsed (or is missing) is NaN.
ToNumeric(x) ==
    IF IsNA(x) THEN NA
    ELSE IF IsText(x) THEN ParseText(TextOf(x))
    ELSE Some(Val(x))

\* pd.to_numeric(errors="coerce").fillna(0).astype(int), for a finite value
CoerceInt(x) == IF IsNA(ToNumeric(x)) THEN 0 ELSE Val(ToNumeric(x))

\* astype(int) raises IntCastingNaNError when the hour or minute column
\* holds a non-finite value (fillna(0) replaces NaN only, not inf).
Raises(df) ==
    \E i \in 1..Len(df) :
        \/ ToNumeric(df[i].hour) = PosInf
        \/ ToNumeric(df[i].minute) = PosInf

EnsureRow(r, hasPlatform, hasSong) ==
    [platform |-> AsStr(r.platform, hasPlatform),
     song_id |-> AsStr(r.song_id, hasSong),
     date |-> r.date,
     hour |-> CoerceInt(r.hour),
     minute |-> CoerceInt(r.minute),
     total_plays |-> ToNumeric(r.total_plays),
     total_listeners |-> ToNumeric(r.total_listeners)]

EnsureRows(df, hasPlatform, hasSong) ==
    SubSeq([i \in 1..Len(df) |-> EnsureRow(df[i], hasPlatform, hasSong)],
           1, Len(df))

ensure_columns(df) ==
    EnsureRows(df, \E i \in 1..Len(df) : NotNA(df[i].platform),
                   \E i \in 1..Len(df) : NotNA(df[i].song_id))

\* Day number of a "YYYY-MM-DD" string relative to 2025-12-17; NaT when the
\* string is not a calendar date.
DateDay(d) ==
    IF d = "2025-12-17" THEN Some(0)
    ELSE IF d = "2025-12-18" THEN Some(1)
    ELSE NA

\* pd.to_datetime(date + " " + HH + ":" + MM, errors="coerce")
build_timestamp(r) ==
    IF /\ NotNA(DateDay(r.date))
       /\ r.hour \in 0..23
       /\ r.minute \in 0..59
    THEN Some(Val(DateDay(r.date)) * 1440 + r.hour * 60 + r.minute)
    ELSE NA

\* df["timestamp"].astype(str): "2025-12-DD HH:MM:00", or "NaT"
TsStr(ts) ==
    IF IsNA(ts) THEN StrNaT
    ELSE LET day == Val(ts) \div 1440
             hh == (Val(ts) % 1440) \div 60
             mm == Val(ts) % 60
         IN  <<50, 48, 50, 53, 45, 49, 50, 45>> \o Digit2(17 + day) \o <<32>>
             \o Digit2(hh) \o <<58>> \o Digit2(mm) \o <<58, 48, 48>>

\* df["key"] = platform + "::" + song_id + "::" + timestamp.astype(str)
KeyOf(r) == r.platform \o StrSep \o r.song_id \o StrSep \o TsStr(r.timestamp)

\* df["timestamp"] = _build_timestamp(df); df["key"] = ...
WithTimestamp(df) ==
    SubSeq([i \in 1..Len(df) |->
               [platform |-> df[i].platform, song_id |-> df[i].song_id,
                date |-> df[i].date, hour |-> df[i].hour,
                minute |-> df[i].minute,
                timestamp |-> build_timestamp(df[i]),
                total_plays |-> df[i].total_plays,
                total_listeners |-> df[i].total_listeners]], 1, Len(df))

WithKey(df) ==
    SubSeq([i \in 1..Len(df) |->
               [platform |-> df[i].platform, song_id |-> df[i].song_id,
                date |-> df[i].date, hour |-> df[i].hour,
                minute |-> df[i].minute,
                timestamp |-> df[i].timestamp,
                total_plays |-> df[i].total_plays,
                total_listeners |-> df[i].total_listeners,
                key |-> KeyOf(df[i])]], 1, Len(df))

\* _ensure_columns(df) writes every column into the table it is given and
\* returns that same object.
EnsureColumns(f) == Assign(f, ensure_columns(TableOf(f)))

\* _ensure_columns on a table whose hour or minute column cannot be cast:
\* the hour column raises before it is written, the minute column after the
\* hour column has been.
EnsureColumnsRaising(f) ==
    IF \E i \in 1..Len(TableOf(f)) : ToNumeric(TableOf(f)[i].hour) = PosInf
    THEN f
    ELSE Assign(f, SubSeq([i \in 1..Len(TableOf(f)) |->
                              [TableOf(f)[i] EXCEPT !.hour = CoerceInt(@)]],
                          1, Len(TableOf(f))))

\* df["timestamp"] = _build_timestamp(df)
WriteTimestamp(f) == Assign(f, WithTimestamp(TableOf(f)))

\* df["key"] = ...
WriteKey(f) == Assign(f, WithKey(TableOf(f)))

\* normalize from _ensure_columns to the key column, its last column write.
NormalizeColumns(f) == WriteKey(WriteTimestamp(EnsureColumns(f)))

\* Mutant of DropKey: the date column is dropped together with the key; a
\* column that _ensure_columns has to create again holds "None".
DropKeyAndDate(df) ==
    SubSeq([i \in 1..Len(df) |->
               [platform |-> df[i].platform, song_id |-> df[i].song_id,
                date |-> "None", hour |-> df[i].hour,
                minute |-> df[i].minute,
                timestamp |-> df[i].timestamp,
                total_plays |-> df[i].total_plays,
                total_listeners |-> df[i].total_listeners]], 1, Len(df))

\* df.drop(columns=["key"])
DropKey(df) ==
    SubSeq([i \in 1..Len(df) |->
               [platform |-> df[i].platform, song_id |-> df[i].song_id,
                date |-> df[i].date, hour |-> df[i].hour,
                minute |-> df[i].minute,
                timestamp |-> df[i].timestamp,
                total_plays |-> df[i].total_plays,
                total_listeners |-> df[i].total_listeners]], 1, Len(df))

\* Mutant of DuplicatedCount: duplicated(keep=False), every row of a key
\* that occurs more than once is counted.
DuplicatedCountKeepFalse(df) ==
    Cardinality({i \in 1..Len(df) :
                    \E j \in 1..Len(df) : j # i /\ df[j].key = df[i].key})

\* df.duplicated("key").sum(): rows whose key occurred in an earlier row
DuplicatedCount(df) ==
    Cardinality({i \in 1..Len(df) :
                    \E j \in 1..(i - 1) : df[j].key = df[i].key})

KeyLess(a, b) == StrLess(a.key, b.key)

\* groupby("key", as_index=False).tail(1) of the sorted rows
TailOfGroups(s) ==
    SelectRows(s, [i \in 1..Len(s) |->
                      \A j \in (i + 1)..Len(s) : s[j].key # s[i].key], 1)

\* The pairs (first, last) of positions a run of n equal values can end
\* up with.
Ends(n) ==
    IF n = 1 THEN {<<1, 1>>}
    ELSE {p \in (1..n) \X (1..n) : p[1] # p[2]}

\* A run with row f moved to its front and row l to its end.
Arrange(run, f, l) ==
    IF Len(run) = 1 THEN run
    ELSE <<run[f]>>
         \o SelectRows(run, [i \in 1..Len(run) |-> i # f /\ i # l], 1)
         \o <<run[l]>>

\* The last position of the run of equal values that starts at from.
TieEnd(by, from) ==
    CHOOSE e \in from..Len(by) :
        /\ \A j \in from..e : by[j] = by[from]
        /\ (e = Len(by) \/ by[e + 1] # by[from])

\* The orders an unstable sort can leave the sorted rows s in, where by[i]
\* is the sort value of s[i]: within a run of equal values any row can come
\* first and any other row last.  The callers read of a run only its first
\* and its last row (tail(1), iloc[0], iloc[-1]) and otherwise values that
\* do not depend on the order, so one order stands for all orders with the
\* same first and last rows.
RECURSIVE TieOrders(_, _, _)
TieOrders(s, by, from) ==
    IF from > Len(s) THEN {<<>>}
    ELSE {Arrange(SubSeq(s, from, TieEnd(by, from)), p[1], p[2]) \o rest :
             p \in Ends(TieEnd(by, from) + 1 - from),
             rest \in TieOrders(s, by, TieEnd(by, from) + 1)}

KeysOfRows(s) == SubSeq([i \in 1..Len(s) |-> s[i].key], 1, Len(s))

\* The rows in key order, rows of equal key in input order.
SortByKeyStable(df) ==
    StableSort(df, [i \in 1..Len(df) |->
                       [j \in 1..Len(df) |-> KeyLess(df[i], df[j])]])

\* df.sort_values(["key"]): the orders the sort can return.
SortByKey(df) ==
    IF Len(df) - 1 <= SmallSort THEN {SortByKeyStable(df)}
    ELSE TieOrders(SortByKeyStable(df), KeysOfRows(SortByKeyStable(df)), 1)

\* The tables groupby("key").tail(1) can return: of each key the row the
\* sort left last.
LastPerKey(df) == {TailOfGroups(s) : s \in SortByKey(df)}

\* Order of sort_values(["platform", "song_id", "timestamp"]); NaT last.
TsLess(a, b) ==
    /\ NotNA(a)
    /\ (IsNA(b) \/ Val(a) < Val(b))

TripleLess(a, b) ==
    \/ StrLess(a.platform, b.platform)
    \/ /\ a.platform = b.platform
       /\ \/ StrLess(a.song_id, b.song_id)
          \/ /\ a.song_id = b.song_id
             /\ TsLess(a.timestamp, b.timestamp)

\* Mutant of SortByTriple: the final sort is left out.
SortByTripleSkipped(df) == df

SortByTriple(df) ==
    StableSort(df, [i \in 1..Len(df) |->
                       [j \in 1..Len(df) |-> TripleLess(df[i], df[j])]])

\* Mutant of DropNaT: records without a timestamp are kept.
DropNaTSkipped(df) == df

\* Mutant of DropNaT: one unparsable timestamp empties the whole table.
DropNaTAll(df) ==
    IF \E i \in 1..Len(df) : IsNA(df[i].timestamp) THEN <<>> ELSE df

\* df[df["timestamp"].notna()]
DropNaT(df) ==
    SelectRows(df, [i \in 1..Len(df) |-> NotNA(df[i].timestamp)], 1)

\* The results of the deduplication, one for each table the key sort and
\* tail(1) can leave.
Dedup(df) ==
    {[df |-> DropNaT(DropKey(SortByTriple(t))),
      dup |-> DuplicatedCount(df)] : t \in LastPerKey(df)}

\* The results normalize can return: one while the key sort is stable, and
\* one for every choice of surviving records beyond.
normalize(raw) ==
    IF raw = <<>> THEN {[df |-> TableOf(copy(Call(raw))), dup |-> 0]}
    ELSE Dedup(TableOf(NormalizeColumns(copy(Call(raw)))))

\* The frame normalize returns table from: an empty table is copied and the
\* copy returned; otherwise the columns of the copy are completed, and the
\* sorts, tail(1), drop and the final selection each bind df to a new
\* table, of which the last is returned.
NormalizeReturn(raw, table) ==
    IF raw = <<>> THEN copy(Call(raw))
    ELSE Rebind(NormalizeColumns(copy(Call(raw))), table)

\* The result of a call that its input determines.
TheResult(results) == CHOOSE r \in results : TRUE

\* -------------------------------------------------------------- metrics.py
SameGroup(a, b) == a.platform = b.platform /\ a.song_id = b.song_id

\* Mutant of PrevInGroup: a plain diff() without the groupby.
PrevRowAnyGroup(s, i) == i - 1

\* Index of the previous row of the same (platform, song_id) group in row
\* order, 0 when row i is the first of its group (groupby(...).diff()).
PrevInGroup(s, i) ==
    IF \E j \in 1..(i - 1) : SameGroup(s[j], s[i])
    THEN CHOOSE j \in 1..(i - 1) :
            /\ SameGroup(s[j], s[i])
            /\ \A k \in (j + 1)..(i - 1) : ~SameGroup(s[k], s[i])
    ELSE 0

\* Mutant of Diff: a NaN value is read as 0 (fillna(0) before diff()).
DiffFillZero(cur, hasPrev, prev) ==
    IF hasPrev
    THEN Some((IF NotNA(cur) THEN Val(cur) ELSE 0)
              - (IF NotNA(prev) THEN Val(prev) ELSE 0))
    ELSE NA

\* Series.diff() of one cell: NaN when there is no previous row or when
\* either value is NaN.
Diff(cur, hasPrev, prev) ==
    IF hasPrev /\ NotNA(cur) /\ NotNA(prev) THEN Some(Val(cur) - Val(prev))
    ELSE NA

RECURSIVE GCD(_, _)
GCD(a, b) == IF b = 0 THEN a ELSE GCD(b, a % b)

Abs(n) == IF n < 0 THEN 0 - n ELSE n

\* The quotient n / d (d > 0) as a reduced fraction.
Frac(n, d) == <<n \div GCD(Abs(n), d), d \div GCD(Abs(n), d)>>

\* delta / delta_minutes on float columns: NaN when the delta is NaN; a
\* division by 0.0 raises nothing and gives NaN (0/0) or +-inf, written
\* <<1, 0>> and <<-1, 0>>.
Rate(delta, minutes) ==
    IF IsNA(delta) THEN NA
    ELSE IF Val(minutes) > 0 THEN Frac(Val(delta), Val(minutes))
    ELSE IF Val(minutes) < 0 THEN Frac(0 - Val(delta), 0 - Val(minutes))
    ELSE IF Val(delta) = 0 THEN NA
    ELSE IF Val(delta) > 0 THEN <<1, 0>> ELSE <<-1, 0>>

DeltaRow(r, hasPrev, p) ==
    [platform |-> r.platform, song_id |-> r.song_id,
     timestamp |-> r.timestamp,
     total_plays |-> r.total_plays, total_listeners |-> r.total_listeners,
     delta_plays |-> Diff(r.total_plays, hasPrev, p.total_plays),
     delta_listeners |-> Diff(r.total_listeners, hasPrev, p.total_listeners),
     delta_minutes |-> Diff(r.timestamp, hasPrev, p.timestamp)]

PrevRow(s, j) == IF j = 0 THEN s[1] ELSE s[j]

AddDeltas(s) ==
    SubSeq([i \in 1..Len(s) |->
               DeltaRow(s[i], PrevInGroup(s, i) # 0,
                        PrevRow(s, PrevInGroup(s, i)))], 1, Len(s))

\* Mutant of ValidTime: delta_minutes >= 0.
ValidTimeNonNegative(r) == NotNA(r.delta_minutes) /\ Val(r.delta_minutes) >= 0

\* valid_time = df["delta_minutes"] > 0 (False on NaN)
ValidTime(r) == NotNA(r.delta_minutes) /\ Val(r.delta_minutes) > 0

\* Mutant of AnomalyMask: <= 0 instead of < 0.
AnomalyMaskNonPositive(r) ==
    \/ NotNA(r.delta_plays) /\ Val(r.delta_plays) <= 0
    \/ NotNA(r.delta_listeners) /\ Val(r.delta_listeners) <= 0

\* (df["delta_plays"] < 0) | (df["delta_listeners"] < 0)
AnomalyMask(r) ==
    \/ NotNA(r.delta_plays) /\ Val(r.delta_plays) < 0
    \/ NotNA(r.delta_listeners) /\ Val(r.delta_listeners) < 0

RateRow(r) ==
    [platform |-> r.platform, song_id |-> r.song_id,
     timestamp |-> r.timestamp,
     total_plays |-> r.total_plays, total_listeners |-> r.total_listeners,
     delta_plays |-> r.delta_plays, delta_listeners |-> r.delta_listeners,
     delta_minutes |-> r.delta_minutes,
     rate_plays_per_min |->
        IF ValidTime(r) THEN Rate(r.delta_plays, r.delta_minutes) ELSE NA,
     rate_listeners_per_min |->
        IF ValidTime(r) THEN Rate(r.delta_listeners, r.delta_minutes) ELSE NA,
     is_anomaly_negative_diff |-> AnomalyMask(r)]

AddRates(s) == SubSeq([i \in 1..Len(s) |-> RateRow(s[i])], 1, Len(s))

CountAnomalies(s) ==
    Cardinality({i \in 1..Len(s) : s[i].is_anomaly_negative_diff})

WithCount(s) == [df |-> s, num |-> CountAnomalies(s)]

\* Mutant of add_metrics: rows with a negative diff are dropped.
DropAnomalies(s) ==
    [df |-> SelectRows(s, [i \in 1..Len(s) |->
                              ~s[i].is_anomaly_negative_diff], 1),
     num |-> CountAnomalies(s)]

add_metrics_dropping(df) ==
    IF df = <<>> THEN [df |-> <<>>, num |-> 0]
    ELSE DropAnomalies(AddRates(AddDeltas(SortByTriple(df))))

\* The frame add_metrics returns from: an empty table is copied and
\* returned; otherwise df is bound to a copy, then to the sorted table
\* sort_values builds from it, and the delta, rate and anomaly columns are
\* written into that sorted table.
SortRows(f) == Rebind(f, SortByTriple(TableOf(f)))

WriteDeltas(f) == Assign(f, AddDeltas(TableOf(f)))

WriteRates(f) == Assign(f, AddRates(TableOf(f)))

AddMetricsFrame(df) ==
    IF df = <<>> THEN copy(Call(df))
    ELSE WriteRates(WriteDeltas(SortRows(copy(Call(df)))))

add_metrics(df) ==
    IF df = <<>> THEN [df |-> TableOf(AddMetricsFrame(df)), num |-> 0]
    ELSE WithCount(TableOf(AddMetricsFrame(df)))

\* --------------------------------------------------------------- report.py
GroupKey(r) == <<r.platform, r.song_id>>

GroupKeyLess(a, b) ==
    \/ StrLess(a[1], b[1])
    \/ a[1] = b[1] /\ StrLess(a[2], b[2])

\* The (platform, song_id) keys of df.groupby([...]), in sorted order.
FirstOccurrences(df) ==
    SelectRows(df, [i \in 1..Len(df) |->
                       \A j \in 1..(i - 1) :
                           GroupKey(df[j]) # GroupKey(df[i])], 1)

KeysOf(rows) ==
    SubSeq([i \in 1..Len(rows) |-> GroupKey(rows[i])], 1, Len(rows))

SortKeys(keys) ==
    StableSort(keys, [i \in 1..Len(keys) |->
                         [j \in 1..Len(keys) |->
                             GroupKeyLess(keys[i], keys[j])]])

GroupKeys(df) == SortKeys(KeysOf(FirstOccurrences(df)))

RowTsLess(a, b) == TsLess(a.timestamp, b.timestamp)

TimestampsOfRows(s) ==
    SubSeq([i \in 1..Len(s) |-> s[i].timestamp], 1, Len(s))

\* The rows in timestamp order, rows of equal timestamp in input order.
SortByTimestampStable(g) ==
    StableSort(g, [i \in 1..Len(g) |->
                      [j \in 1..Len(g) |-> RowTsLess(g[i], g[j])]])

\* The rows of g with a timestamp (present = TRUE) or without one.
RowsByTimestamp(g, present) ==
    SelectRows(g, [i \in 1..Len(g) |-> NotNA(g[i].timestamp) = present], 1)

\* g.sort_values("timestamp"): the orders the sort can return.  The rows
\* with a timestamp are sorted, the rows without one are put after them in
\* their input order (na_position="last").
SortByTimestamp(g) ==
    IF Len(RowsByTimestamp(g, TRUE)) - 1 <= SmallSort
    THEN {SortByTimestampStable(g)}
    ELSE {sorted \o RowsByTimestamp(g, FALSE) :
             sorted \in TieOrders(
                 SortByTimestampStable(RowsByTimestamp(g, TRUE)),
                 TimestampsOfRows(
                     SortByTimestampStable(RowsByTimestamp(g, TRUE))), 1)}

\* The rows of one group of df.groupby(["platform", "song_id"])
RowsOfGroup(df, k) ==
    SelectRows(df, [i \in 1..Len(df) |-> GroupKey(df[i]) = k], 1)

\* Mutant of GroupRows: the group is sorted by descending timestamp.
GroupRowsDescending(df, k) ==
    {SubSeq([i \in 1..Len(g) |-> g[Len(g) + 1 - i]], 1, Len(g)) :
        g \in SortByTimestamp(RowsOfGroup(df, k))}

\* g = g.sort_values("timestamp"): the orders of the rows of one group.
GroupRows(df, k) == SortByTimestamp(RowsOfGroup(df, k))

\* Python `x or 0`: x when x is truthy, and NaN is truthy.
Or0(x) == IF IsNA(x) \/ Val(x) # 0 THEN x ELSE Some(0)

\* Mutant of Sub: the operands are taken in the wrong order.
SubReversed(a, b) ==
    IF NotNA(a) /\ NotNA(b) THEN Some(Val(b) - Val(a)) ELSE NA

\* a - b on floats: NaN when either operand is NaN.
Sub(a, b) == IF NotNA(a) /\ NotNA(b) THEN Some(Val(a) - Val(b)) ELSE NA

FracAdd(x, y) == Frac(x[1] * y[2] + y[1] * x[2], x[2] * y[2])

RECURSIVE FracSum(_, _)
FracSum(rates, i) ==
    IF i > Len(rates) THEN <<0, 1>>
    ELSE FracAdd(rates[i], FracSum(rates, i + 1))

\* Mutant of MeanOf: a group without any rate gets the average 0.
MeanOfZeroWhenEmpty(rates) ==
    IF rates = <<>> THEN <<0, 1>>
    ELSE Frac(FracSum(rates, 1)[1], FracSum(rates, 1)[2] * Len(rates))

MeanOf(rates) ==
    IF rates = <<>> THEN NA
    ELSE Frac(FracSum(rates, 1)[1], FracSum(rates, 1)[2] * Len(rates))

\* g[col].dropna().mean()
PresentPlaysRates(g) ==
    SelectRows(g, [i \in 1..Len(g) |-> NotNA(g[i].rate_plays_per_min)], 1)

PresentListenersRates(g) ==
    SelectRows(g, [i \in 1..Len(g) |-> NotNA(g[i].rate_listeners_per_min)], 1)

PlaysRates(g) ==
    SubSeq([i \in 1..Len(g) |-> g[i].rate_plays_per_min], 1, Len(g))

ListenersRates(g) ==
    SubSeq([i \in 1..Len(g) |-> g[i].rate_listeners_per_min], 1, Len(g))

\* Mutant of SummaryRecord: num_points counts only the records that have a
\* predecessor.
SummaryRecordDeltasOnly(k, g) ==
    [platform |-> k[1], song_id |-> k[2],
     first_timestamp |-> g[1].timestamp,
     last_timestamp |-> g[Len(g)].timestamp,
     first_total_plays |-> g[1].total_plays,
     last_total_plays |-> g[Len(g)].total_plays,
     net_plays |-> Sub(Or0(g[Len(g)].total_plays), Or0(g[1].total_plays)),
     first_total_listeners |-> g[1].total_listeners,
     last_total_listeners |-> g[Len(g)].total_listeners,
     net_listeners |->
        Sub(Or0(g[Len(g)].total_listeners), Or0(g[1].total_listeners)),
     avg_rate_plays_per_min |-> MeanOf(PlaysRates(PresentPlaysRates(g))),
     avg_rate_listeners_per_min |->
        MeanOf(ListenersRates(PresentListenersRates(g))),
     num_points |-> Len(g) - 1,
     num_anomalies_negative_diff |-> CountAnomalies(g)]

SummaryRecord(k, g) ==
    [platform |-> k[1], song_id |-> k[2],
     first_timestamp |-> g[1].timestamp,
     last_timestamp |-> g[Len(g)].timestamp,
     first_total_plays |-> g[1].total_plays,
     last_total_plays |-> g[Len(g)].total_plays,
     net_plays |-> Sub(Or0(g[Len(g)].total_plays), Or0(g[1].total_plays)),
     first_total_listeners |-> g[1].total_listeners,
     last_total_listeners |-> g[Len(g)].total_listeners,
     net_listeners |->
        Sub(Or0(g[Len(g)].total_listeners), Or0(g[1].total_listeners)),
     avg_rate_plays_per_min |-> MeanOf(PlaysRates(PresentPlaysRates(g))),
     avg_rate_listeners_per_min |->
        MeanOf(ListenersRates(PresentListenersRates(g))),
     num_points |-> Len(g),
     num_anomalies_negative_diff |-> CountAnomalies(g)]

\* The rows appended by the loop over the groups from group n on, one
\* list for every order the sorts of the groups can return.
RECURSIVE SummaryRows(_, _, _)
SummaryRows(df, keys, n) ==
    IF n > Len(keys) THEN {<<>>}
    ELSE {<<SummaryRecord(keys[n], g)>> \o rest :
             g \in GroupRows(df, keys[n]),
             rest \in SummaryRows(df, keys, n + 1)}

RECURSIVE SumAnomalies(_, _, _)
SumAnomalies(summary, platform, i) ==
    IF i > Len(summary) THEN 0
    ELSE (IF summary[i].platform = platform
          THEN summary[i].num_anomalies_negative_diff ELSE 0)
         + SumAnomalies(summary, platform, i + 1)

\* Mutant of PerPlatform: each group overwrites the entry of its platform
\* instead of adding to it, so the last group of a platform wins.
PerPlatformLastGroup(summary) ==
    [p \in {summary[i].platform : i \in 1..Len(summary)} |->
        summary[CHOOSE i \in 1..Len(summary) :
                   /\ summary[i].platform = p
                   /\ \A j \in (i + 1)..Len(summary) :
                         summary[j].platform # p]
            .num_anomalies_negative_diff]

\* anomalies_per_platform: one entry per platform, accumulated over its
\* groups.
PerPlatform(summary) ==
    [p \in {summary[i].platform : i \in 1..Len(summary)} |->
        SumAnomalies(summary, p, 1)]

WithPerPlatform(summary) ==
    [summary |-> summary, per_platform |-> PerPlatform(summary)]

\* The results build_summary_table can return.
build_summary_table(df) ==
    IF df = <<>> THEN {[summary |-> <<>>, per_platform |-> <<>>]}
    ELSE {WithPerPlatform(rows) : rows \in SummaryRows(df, GroupKeys(df), 1)}

\* The frame build_summary_table returns summary from: df is only read;
\* the groups and their sorted copies are new tables, and so is the summary
\* that pd.DataFrame() or pd.DataFrame(records) builds.
SummaryReturn(df, summary) == Rebind(Call(df), summary)

\* ------------------------------------------------- the caller's tables
\* The caller's table when normalize returns table.
CallerTableAfterNormalize(raw, table) ==
    CallerTable(NormalizeReturn(raw, table))

\* The caller's table when add_metrics returns.
CallerTableAfterAddMetrics(df) == CallerTable(AddMetricsFrame(df))

\* ---------------------------------------------------------------- actions
\* cmd_render has not been called.
RenderIdle ==
    /\ render_args = <<>>
    /\ written = {}

\* A Fetcher as constructed with its defaults: no browser, no call made.
FetcherIdle ==
    /\ fetcher_mode = "auto"
    /\ browser = "none"
    /\ fetch_log = <<>>

\* collect_metrics has not been called.
CollectorIdle ==
    /\ config_mode = "auto"
    /\ enabled_platforms = {}
    /\ targets = <<>>
    /\ cursor = 1
    /\ stats = <<>>
    /\ fetchers = <<>>
    /\ processed = <<>>
    /\ collect_state = "idle"

\* The value of number before normalize_number has returned.
Pending == <<"pending", "pending">>

\* normalize_number has not been called.
NumberIdle ==
    /\ text = <<>>
    /\ number = Pending

Init ==
    /\ stage = "raw"
    /\ df_raw = <<>>
    /\ df_norm = <<>>
    /\ dup_count = 0
    /\ df_metrics = <<>>
    /\ num_anomalies = 0
    /\ df_summary = <<>>
    /\ anomalies_per_platform = <<>>
    /\ RenderIdle /\ FetcherIdle /\ CollectorIdle /\ NumberIdle

\* io.load_jsonl appends one parsed JSON object to the loaded records.
Load ==
    /\ stage = "raw"
    /\ Len(df_raw) < MaxRecords
    /\ \E r \in RawRecords : df_raw' = Append(df_raw, r)
    /\ UNCHANGED <<stage, df_norm, dup_count, df_metrics, num_anomalies,
                   df_summary, anomalies_per_platform>>
    /\ UNCHANGED other_vars

\* normalize(df_raw); an exception of _ensure_columns ends the run.
Normalize ==
    /\ stage = "raw"
    /\ IF Raises(df_raw)
       THEN /\ stage' = "error"
            /\ df_raw' = CallerTable(EnsureColumnsRaising(copy(Call(df_raw))))
            /\ UNCHANGED <<df_norm, dup_count>>
       ELSE /\ \E res \in normalize(df_raw) :
                  /\ df_norm' = res.df
                  /\ dup_count' = res.dup
                  /\ df_raw' = CallerTableAfterNormalize(df_raw, res.df)
            /\ stage' = "norm"
    /\ UNCHANGED <<df_metrics, num_anomalies, df_summary,
                   anomalies_per_platform>>
    /\ UNCHANGED other_vars

AddMetrics ==
    /\ stage = "norm"
    /\ \E res \in {add_metrics(df_norm)} :
           /\ df_metrics' = res.df
           /\ num_anomalies' = res.num
    /\ stage' = "metrics"
    /\ df_norm' = CallerTableAfterAddMetrics(df_norm)
    /\ UNCHANGED <<df_raw, dup_count, df_summary, anomalies_per_platform>>
    /\ UNCHANGED other_vars

BuildSummary ==
    /\ stage = "metrics"
    /\ \E res \in build_summary_table(df_metrics) :
           /\ df_summary' = res.summary
           /\ anomalies_per_platform' = res.per_platform
           /\ df_metrics' = CallerTable(SummaryReturn(df_metrics,
                                                      res.summary))
    /\ stage' = "summary"
    /\ UNCHANGED <<df_raw, df_norm, dup_count, num_anomalies>>
    /\ UNCHANGED other_vars

Next == Load \/ Normalize \/ AddMetrics \/ BuildSummary

Spec == Init /\ [][Next]_vars

\* The loading and normalizing steps alone, as normalize's tests run them.
\* io.load_jsonl appends the next line of a file of colliding records.
LoadBulk ==
    /\ stage = "raw"
    /\ Len(df_raw) < MaxBulk
    /\ \A i \in 1..Len(df_raw) : df_raw[i] = BulkRecord(i)
    /\ df_raw' = Append(df_raw, BulkRecord(Len(df_raw) + 1))
    /\ UNCHANGED <<stage, df_norm, dup_count, df_metrics, num_anomalies,
                   df_summary, anomalies_per_platform>>
    /\ UNCHANGED other_vars

NextNormalize == Load \/ LoadBulk \/ Normalize

SpecNormalize == Init /\ [][NextNormalize]_vars

\* A table built row by row and handed to add_metrics directly.
InitMetrics ==
    /\ stage = "norm"
    /\ df_raw = <<>>
    /\ df_norm = <<>>
    /\ dup_count = 0
    /\ df_metrics = <<>>
    /\ num_anomalies = 0
    /\ df_summary = <<>>
    /\ anomalies_per_platform = <<>>
    /\ RenderIdle /\ FetcherIdle /\ CollectorIdle /\ NumberIdle

MakeRow ==
    /\ stage = "norm"
    /\ Len(df_norm) < MaxRows
    /\ \E r \in CanonicalRows : df_norm' = Append(df_norm, r)
    /\ UNCHANGED <<stage, df_raw, dup_count, df_metrics, num_anomalies,
                   df_summary, anomalies_per_platform>>
    /\ UNCHANGED other_vars

NextMetrics == MakeRow \/ AddMetrics \/ BuildSummary

SpecMetrics == InitMetrics /\ [][NextMetrics]_vars

\* A table of unevenly sampled series handed to add_metrics directly.
MakeSeriesRow ==
    /\ stage = "norm"
    /\ Len(df_norm) < MaxRows
    /\ \E r \in SeriesRows : df_norm' = Append(df_norm, r)
    /\ UNCHANGED <<stage, df_raw, dup_count, df_metrics, num_anomalies,
                   df_summary, anomalies_per_platform>>
    /\ UNCHANGED other_vars

NextSeries == MakeSeriesRow \/ AddMetrics \/ BuildSummary

SpecSeries == InitMetrics /\ [][NextSeries]_vars

\* The next row of a long table of one song with tied timestamps.
MakeBulkRow ==
    /\ stage = "norm"
    /\ Len(df_norm) < MaxBulk
    /\ \A i \in 1..Len(df_norm) : df_norm[i] = BulkRow(i)
    /\ df_norm' = Append(df_norm, BulkRow(Len(df_norm) + 1))
    /\ UNCHANGED <<stage, df_raw, dup_count, df_metrics, num_anomalies,
                   df_summary, anomalies_per_platform>>
    /\ UNCHANGED other_vars

\* Series of a few samples, and long series with tied timestamps.
NextBulkSeries == MakeSeriesRow \/ MakeBulkRow \/ AddMetrics \/ BuildSummary

SpecBulkSeries == InitMetrics /\ [][NextBulkSeries]_vars

\* A batch of records with field-level defects, normalized and then
\* normalized a second time.
LoadDefective ==
    /\ stage = "raw"
    /\ Len(df_raw) < MaxDefective
    /\ \E r \in DefectiveRecords : df_raw' = Append(df_raw, r)
    /\ UNCHANGED <<stage, df_norm, dup_count, df_metrics, num_anomalies,
                   df_summary, anomalies_per_platform>>
    /\ UNCHANGED other_vars

\* The table returned by normalize as the records of a new input: every
\* column holds a value, hour and minute are integers.
Reload(df) ==
    SubSeq([i \in 1..Len(df) |->
               [platform |-> Some(df[i].platform),
                song_id |-> Some(df[i].song_id),
                date |-> df[i].date,
                hour |-> Some(df[i].hour), minute |-> Some(df[i].minute),
                total_plays |-> df[i].total_plays,
                total_listeners |-> df[i].total_listeners]], 1, Len(df))

\* normalize applied to the output of normalize.
Renormalize ==
    /\ stage = "norm"
    /\ \E res \in normalize(Reload(df_norm)) :
           /\ df_norm' = res.df
           /\ dup_count' = res.dup
    /\ stage' = "renorm"
    /\ UNCHANGED <<df_raw, df_metrics, num_anomalies, df_summary,
                   anomalies_per_platform>>
    /\ UNCHANGED other_vars

NextDefects == LoadDefective \/ Normalize \/ Renormalize

SpecDefects == Init /\ [][NextDefects]_vars

\* The three stages in the order cmd_render calls them, on a batch of
\* records with field-level defects.
NextStages == LoadDefective \/ Normalize \/ AddMetrics \/ BuildSummary

SpecStages == Init /\ [][NextStages]_vars

\* ------------------------------------------------------------- cmd_render
\* The records of an input file for cmd_render: the songs ("G", "1"),
\* ("G", "2"), ("M", "1") and ("M", "2"), each with a date that is or is not
\* a calendar date.
RenderRecords ==
    [platform : {Some(StrG), Some(StrM)}, song_id : {Some(Str1), Some(Str2)},
     date : Dates, hour : Hours, minute : {Some(10)},
     total_plays : {Some(100)}, total_listeners : Listeners]

\* --platform and --song-id: not given, the empty string, or a value.
RenderPlatforms == {NA, Some(<<>>), Some(StrG), Some(StrM)}
RenderSongIds == {NA, Some(<<>>), Some(Str1)}

RenderArgs ==
    [platform : RenderPlatforms, song_id : RenderSongIds,
     export_png : BOOLEAN, export_html : BOOLEAN]

\* The truth value Python gives an optional string argument.
Truthy(arg) == NotNA(arg) /\ Val(arg) # <<>>

\* if platform: df_norm = df_norm[df_norm["platform"] == platform]
SelectedPlatform(df, platform) ==
    IF Truthy(platform)
    THEN SelectRows(df, [i \in 1..Len(df) |->
                            df[i].platform = Val(platform)], 1)
    ELSE df

\* if song_id: df_norm = df_norm[df_norm["song_id"] == str(song_id)]
SelectedSong(df, song_id) ==
    IF Truthy(song_id)
    THEN SelectRows(df, [i \in 1..Len(df) |->
                            df[i].song_id = Val(song_id)], 1)
    ELSE df

\* The filtering that looks at the platform argument only.
SelectedIgnoringSong(df, platform, song_id) ==
    SelectedPlatform(df, platform)

Selected(df, platform, song_id) ==
    SelectedSong(SelectedPlatform(df, platform), song_id)

\* A file is <<directory, platform, song_id, name>>; song_id is <<>> in the
\* name of a per-platform file.
\* plot_song_totals and plot_song_deltas, called for every group.
SongCharts(df, keys) ==
    UNION {{<<"png", keys[i][1], keys[i][2], "totals">>,
            <<"png", keys[i][1], keys[i][2], "delta">>} :
              i \in 1..Len(keys)}

\* plats = [platform] if platform else sorted(df_metrics["platform"].unique())
SummaryChartPlatforms(df, platform) ==
    IF Truthy(platform) THEN {Val(platform)}
    ELSE {df[i].platform : i \in 1..Len(df)}

\* plot_platform_summary writes its two charts unless the platform has no
\* row.
PlatformCharts(df, plats) ==
    UNION {{<<"png", p, <<>>, "top_totals">>,
            <<"png", p, <<>>, "top_delta">>} :
              p \in {q \in plats : \E i \in 1..Len(df) : df[i].platform = q}}

\* generate_song_report_html for every group that has a summary row.
SongReports(keys, summary) ==
    {<<"reports", keys[i][1], keys[i][2], "report">> :
        i \in {j \in 1..Len(keys) :
                 \E n \in 1..Len(summary) :
                     /\ summary[n].platform = keys[j][1]
                     /\ summary[n].song_id = keys[j][2]}}

\* io.save_summary_csv: one file per platform of the summary.
SummaryCsv(summary) ==
    {<<"csv", summary[n].platform, <<>>, "summary">> : n \in 1..Len(summary)}

\* The files written by the part of cmd_render that follows the summary.
Outputs(a, df, summary) ==
    (IF a.export_png
     THEN SongCharts(df, GroupKeys(df))
          \cup PlatformCharts(df, SummaryChartPlatforms(df, a.platform))
     ELSE {})
    \cup (IF a.export_html THEN SongReports(GroupKeys(df), summary) ELSE {})
    \cup SummaryCsv(summary)

\* io.load_jsonl appends one parsed JSON object to the loaded records.
LoadRender ==
    /\ stage = "raw"
    /\ Len(df_raw) < MaxRender
    /\ \E r \in RenderRecords : df_raw' = Append(df_raw, r)
    /\ UNCHANGED <<stage, df_norm, dup_count, df_metrics, num_anomalies,
                   df_summary, anomalies_per_platform>>
    /\ UNCHANGED other_vars

\* cmd_render after load_jsonl, up to its return.
Render ==
    /\ stage = "raw"
    /\ \E a \in RenderArgs :
        /\ render_args' = <<a>>
        /\ IF df_raw = <<>>
           THEN /\ stage' = "returned"
                /\ written' = {}
                /\ UNCHANGED <<df_norm, dup_count, df_metrics, num_anomalies,
                               df_summary, anomalies_per_platform>>
           ELSE IF Raises(df_raw)
           THEN /\ stage' = "error"
                /\ written' = {}
                /\ UNCHANGED <<df_norm, dup_count, df_metrics, num_anomalies,
                               df_summary, anomalies_per_platform>>
           ELSE \E res \in normalize(df_raw) :
                \E sel \in {Selected(res.df, a.platform, a.song_id)} :
                  /\ df_norm' = sel
                  /\ dup_count' = res.dup
                  /\ stage' = "returned"
                  /\ IF sel = <<>>
                     THEN /\ written' = {}
                          /\ UNCHANGED <<df_metrics, num_anomalies,
                                         df_summary, anomalies_per_platform>>
                     ELSE \E m \in {add_metrics(sel)} :
                          \E s \in build_summary_table(m.df) :
                            /\ df_metrics' = m.df
                            /\ num_anomalies' = m.num
                            /\ df_summary' = s.summary
                            /\ anomalies_per_platform' = s.per_platform
                            /\ written' = Outputs(a, m.df, s.summary)
    /\ UNCHANGED <<df_raw, fetcher_vars, collector_vars, number_vars>>

NextRender == LoadRender \/ Render

SpecRender == Init /\ [][NextRender]_vars

\* ----------------------------------------------------------------- Fetcher
\* The values Fetcher.mode is compared with, and one that is none of them.
Modes == {"auto", "requests", "playwright", "unknown"}

\* What the outside world does to one fetch_html call: whether requests.get
\* and raise_for_status succeed, whether playwright can be imported,
\* whether the browser can be launched, whether the page loads.
Worlds ==
    [requests_ok : BOOLEAN, import_ok : BOOLEAN, launch_ok : BOOLEAN,
     page_ok : BOOLEAN]

\* _fetch_requests: the strategy's name and whether it returned.
fetch_requests(w, b) ==
    [call |-> <<"requests", w.requests_ok>>, browser |-> b]

\* _fetch_playwright on a Fetcher whose browser is "none" (never started),
\* "half" (sync_playwright started, launch failed) or "running".
fetch_playwright(w, b) ==
    IF ~w.import_ok THEN [call |-> <<"playwright", FALSE>>, browser |-> b]
    ELSE IF b = "none" /\ ~w.launch_ok
    THEN [call |-> <<"playwright", FALSE>>, browser |-> "half"]
    ELSE IF b = "half"
    THEN [call |-> <<"playwright", FALSE>>, browser |-> "half"]
    ELSE [call |-> <<"playwright", w.page_ok>>, browser |-> "running"]

\* One call as a list of strategy calls, its result and the browser left.
Finished(calls, b) ==
    [calls |-> calls,
     result |-> IF calls[Len(calls)][2] THEN "html" ELSE "raised",
     browser |-> b]

\* The else branch of fetch_html: requests, and playwright if it raised.
fetch_auto(w, b) ==
    IF fetch_requests(w, b).call[2]
    THEN Finished(<<fetch_requests(w, b).call>>, b)
    ELSE Finished(<<fetch_requests(w, b).call, fetch_playwright(w, b).call>>,
                  fetch_playwright(w, b).browser)

\* fetch_html with the fallback in every mode that starts with requests.
fetch_html_falling_back(mode, w, b) ==
    IF mode = "playwright"
    THEN Finished(<<fetch_playwright(w, b).call>>,
                  fetch_playwright(w, b).browser)
    ELSE fetch_auto(w, b)

fetch_html(mode, w, b) ==
    IF mode = "playwright"
    THEN Finished(<<fetch_playwright(w, b).call>>,
                  fetch_playwright(w, b).browser)
    ELSE IF mode = "requests"
    THEN Finished(<<fetch_requests(w, b).call>>, b)
    ELSE fetch_auto(w, b)

\* Fetcher(mode=...): any mode string, no browser.
InitFetcher ==
    /\ stage = "raw"
    /\ df_raw = <<>>
    /\ df_norm = <<>>
    /\ dup_count = 0
    /\ df_metrics = <<>>
    /\ num_anomalies = 0
    /\ df_summary = <<>>
    /\ anomalies_per_platform = <<>>
    /\ fetcher_mode \in Modes
    /\ browser = "none"
    /\ fetch_log = <<>>
    /\ RenderIdle /\ CollectorIdle /\ NumberIdle

\* One call of fetch_html, from entry to return or raise.
FetchHtml ==
    /\ Len(fetch_log) < MaxFetches
    /\ \E w \in Worlds :
       \E res \in {fetch_html(fetcher_mode, w, browser)} :
           /\ fetch_log' = Append(fetch_log,
                                  [calls |-> res.calls, result |-> res.result])
           /\ browser' = res.browser
    /\ UNCHANGED <<fetcher_mode, pipeline_vars, render_vars, collector_vars,
                   number_vars>>

\* Fetcher.close(): the browser is closed and playwright stopped.
CloseFetcher ==
    /\ browser' = "none"
    /\ UNCHANGED <<fetcher_mode, fetch_log, pipeline_vars, render_vars,
                   collector_vars, number_vars>>

NextFetcher == FetchHtml \/ CloseFetcher

SpecFetcher == InitFetcher /\ [][NextFetcher]_vars

\* --------------------------------------------------------- collect_metrics
\* The platform names of the configuration; CollectorFactory._collectors
\* has a collector for GENIE only.
TargetPlatforms == {"GENIE", "MELON"}
SupportedPlatforms == {"GENIE"}
CollectModes == {"auto", "requests", "playwright"}

\* The target lists build_targets_from_config can return, by platform.
TargetLists ==
    UNION {[1..n -> TargetPlatforms] : n \in 0..MaxTargets}

\* What the outside world does to one iteration of the loop: whether the
\* log directory can be made, how collector.collect ends (with metrics,
\* with empty metrics, raising), how the fallback collector's collect ends,
\* whether the two log files can be written, and whether the failure entry
\* can be written.
TargetWorlds ==
    [mkdir_ok : BOOLEAN, collect : {"metrics", "empty", "raised"},
     fallback : {"metrics", "empty", "raised"}, log_ok : BOOLEAN,
     errlog_ok : BOOLEAN]

\* stats as built before the loop.
NewStats(ts) ==
    [total |-> Len(ts), success |-> 0, failed |-> 0, skipped |-> 0,
     platform_stats |-> <<>>]

\* stats['skipped'] += 1
CountSkipped(st) ==
    [st EXCEPT !.skipped = @ + 1]

\* if platform not in stats['platform_stats']: ... = {'success': 0, 'failed': 0}
InitPlatformStats(st, p) ==
    IF p \in DOMAIN st.platform_stats THEN st
    ELSE [st EXCEPT !.platform_stats =
                        (p :> [success |-> 0, failed |-> 0]) @@ @]

\* stats['success'] += 1; stats['platform_stats'][platform]['success'] += 1
CountSuccess(st, p) ==
    [st EXCEPT !.success = @ + 1, !.platform_stats[p].success = @ + 1]

\* The failure count without the per-platform counter.
CountFailedGlobally(st, p) ==
    [st EXCEPT !.failed = @ + 1]

\* stats['failed'] += 1; stats['platform_stats'][platform]['failed'] += 1
CountFailed(st, p) ==
    [st EXCEPT !.failed = @ + 1, !.platform_stats[p].failed = @ + 1]

\* The body of the per-target try block: whether it reached the success
\* count, whether a collect call raised, and the fallback Fetcher it
\* created, if any, with whether close() was called on it.
TryTarget(mode, w) ==
    IF w.collect = "raised"
    THEN [ok |-> FALSE, raised |-> TRUE, created |-> <<>>]
    ELSE IF mode = "auto" /\ w.collect = "empty"
    THEN IF w.fallback = "raised"
         THEN [ok |-> FALSE, raised |-> TRUE,
               created |-> <<[mode |-> "playwright", closed |-> FALSE]>>]
         ELSE [ok |-> w.log_ok, raised |-> FALSE,
               created |-> <<[mode |-> "playwright", closed |-> TRUE]>>]
    ELSE [ok |-> w.log_ok, raised |-> FALSE, created |-> <<>>]

\* fetcher.close() of the finally clause: the main Fetcher is the first.
CloseMain(fs) ==
    [fs EXCEPT ![1].closed = TRUE]

\* The configuration handed to collect_metrics.
InitCollector ==
    /\ stage = "raw"
    /\ df_raw = <<>>
    /\ df_norm = <<>>
    /\ dup_count = 0
    /\ df_metrics = <<>>
    /\ num_anomalies = 0
    /\ df_summary = <<>>
    /\ anomalies_per_platform = <<>>
    /\ config_mode \in CollectModes
    /\ enabled_platforms \in SUBSET TargetPlatforms
    /\ targets \in TargetLists
    /\ cursor = 1
    /\ stats = <<>>
    /\ fetchers = <<>>
    /\ processed = <<>>
    /\ collect_state = "idle"
    /\ RenderIdle /\ FetcherIdle /\ NumberIdle

\* collect_metrics up to the loop: the main Fetcher, the log directory and
\* the statistics.  The directory is made after the Fetcher is created and
\* before the try block: when mkdir raises, collect_metrics raises with the
\* Fetcher not closed and the statistics not built.
StartCollect ==
    /\ collect_state = "idle"
    /\ fetchers' = <<[mode |-> config_mode, closed |-> FALSE]>>
    /\ \E mkdir_ok \in BOOLEAN :
          IF mkdir_ok
          THEN /\ stats' = NewStats(targets)
               /\ collect_state' = "running"
          ELSE /\ collect_state' = "raised"
               /\ UNCHANGED stats
    /\ UNCHANGED <<config_mode, enabled_platforms, targets, cursor,
                   processed, pipeline_vars, render_vars, fetcher_vars,
                   number_vars>>

\* One iteration of the loop over the targets.  An exception that leaves
\* the iteration leaves collect_metrics through its finally clause.
ProcessTarget ==
    /\ collect_state = "running"
    /\ cursor <= Len(targets)
    /\ \E w \in TargetWorlds :
       \E p \in {targets[cursor]} :
       \E try \in {TryTarget(config_mode, w)} :
         IF p \notin enabled_platforms \/ p \notin SupportedPlatforms
         THEN /\ stats' = CountSkipped(stats)
              /\ processed' = Append(processed, [outcome |-> "skipped",
                                                 raised |-> FALSE])
              /\ cursor' = cursor + 1
              /\ UNCHANGED <<fetchers, collect_state>>
         ELSE IF ~w.mkdir_ok
         THEN /\ stats' = InitPlatformStats(stats, p)
              /\ fetchers' = CloseMain(fetchers)
              /\ collect_state' = "raised"
              /\ UNCHANGED <<processed, cursor>>
         ELSE IF try.ok
         THEN /\ stats' = CountSuccess(InitPlatformStats(stats, p), p)
              /\ processed' = Append(processed, [outcome |-> "success",
                                                 raised |-> FALSE])
              /\ fetchers' = fetchers \o try.created
              /\ cursor' = cursor + 1
              /\ UNCHANGED collect_state
         ELSE IF w.errlog_ok
         THEN /\ stats' = CountFailed(InitPlatformStats(stats, p), p)
              /\ processed' = Append(processed, [outcome |-> "failed",
                                                 raised |-> try.raised])
              /\ fetchers' = fetchers \o try.created
              /\ cursor' = cursor + 1
              /\ UNCHANGED collect_state
         ELSE /\ stats' = InitPlatformStats(stats, p)
              /\ fetchers' = CloseMain(fetchers \o try.created)
              /\ collect_state' = "raised"
              /\ UNCHANGED <<processed, cursor>>
    /\ UNCHANGED <<config_mode, enabled_platforms, targets, pipeline_vars,
                   render_vars, fetcher_vars, number_vars>>

\* The loop is exhausted: the finally clause, then return stats.
FinishCollect ==
    /\ collect_state = "running"
    /\ cursor > Len(targets)
    /\ fetchers' = CloseMain(fetchers)
    /\ collect_state' = "returned"
    /\ UNCHANGED <<config_mode, enabled_platforms, targets, cursor, stats,
                   processed, pipeline_vars, render_vars, fetcher_vars,
                   number_vars>>

NextCollector == StartCollect \/ ProcessTarget \/ FinishCollect

SpecCollector == InitCollector /\ [][NextCollector]_vars

\* -------------------------------------------------------- normalize_number
\* The characters of a text, as code points: the digits 0, 5 and 7, the
\* dot, the comma, the space, the units K, M, k and U+B9CC (man), and x.
ChSpace == 32
ChComma == 44
ChDot == 46
ChK == 75
ChM == 77
ChMan == 47564
Alphabet == {48, 53, 55, ChDot, ChComma, ChSpace, ChK, ChM, 107, ChMan, 120}

IsDigitCh(c) == c \in 48..57

\* A character of the class [\d.].
IsNumCh(c) == IsDigitCh(c) \/ c = ChDot

NotComma(c) == c # ChComma

\* str.upper() on one character (ASCII letters).
UpperCh(c) == IF c \in 97..122 THEN c - 32 ELSE c

RECURSIVE StripLeft(_)
StripLeft(t) ==
    IF t # <<>> /\ t[1] = ChSpace THEN StripLeft(Tail(t)) ELSE t

RECURSIVE StripRight(_)
StripRight(t) ==
    IF t # <<>> /\ t[Len(t)] = ChSpace
    THEN StripRight(SubSeq(t, 1, Len(t) - 1)) ELSE t

\* text.strip().replace(',', '')
Cleaned(t) == SelectSeq(StripRight(StripLeft(t)), NotComma)

\* The last index of the run of [\d.] characters that holds index i.
RECURSIVE RunEnd(_, _)
RunEnd(t, i) ==
    IF i < Len(t) /\ IsNumCh(t[i + 1]) THEN RunEnd(t, i + 1) ELSE i

\* The first index at or after k that holds no whitespace.
RECURSIVE SkipSpaces(_, _)
SkipSpaces(t, k) ==
    IF k <= Len(t) /\ t[k] = ChSpace THEN SkipSpaces(t, k + 1) ELSE k

\* The indices at which ([\d.]+)\s*<unit> matches, case ignored.
MatchStarts(t, unit) ==
    {i \in 1..Len(t) :
        /\ IsNumCh(t[i])
        /\ SkipSpaces(t, RunEnd(t, i) + 1) <= Len(t)
        /\ UpperCh(t[SkipSpaces(t, RunEnd(t, i) + 1)]) = unit}

\* The indices at which [\d.]+ matches.
RunStarts(t) ==
    {i \in 1..Len(t) : IsNumCh(t[i])}

Leftmost(starts) ==
    CHOOSE i \in starts : \A j \in starts : i <= j

\* re.search: group 1 of the leftmost match, or no match.
FirstMatch(t, starts) ==
    IF starts = {} THEN NA
    ELSE Some(SubSeq(t, Leftmost(starts), RunEnd(t, Leftmost(starts))))

\* 10 to the power n.
RECURSIVE Pow10(_)
Pow10(n) == IF n = 0 THEN 1 ELSE 10 * Pow10(n - 1)

\* The digits of the run after its dot.
RECURSIVE AfterDot(_)
AfterDot(run) ==
    IF run = <<>> THEN <<>>
    ELSE IF run[1] = ChDot THEN Tail(run) ELSE AfterDot(Tail(run))

\* float() accepts a run with at least one digit and at most one dot; any
\* other run raises ValueError.
IsFloatText(run) ==
    /\ \E i \in 1..Len(run) : IsDigitCh(run[i])
    /\ Cardinality({i \in 1..Len(run) : run[i] = ChDot}) <= 1

\* The decimal the run denotes, as numerator and power-of-ten denominator.
Numerator(run) ==
    DigitsValue(SelectSeq(run, IsDigitCh), Len(SelectSeq(run, IsDigitCh)))

Denominator(run) == Pow10(Len(AfterDot(run)))

\* ------------------------------------------ IEEE-754 binary64 arithmetic
\* A positive double is a sequence of bits, most significant first, and the
\* exponent of its last bit: the value is (bits as an integer) * 2^exp.
\* Long numbers are handled in limbs of a few bits so that every
\* intermediate product fits a machine integer.
\* The binary digits of the integer q, without leading zeros.
RECURSIVE Binary(_)
Binary(q) ==
    IF q = 0 THEN <<>> ELSE Append(Binary(q \div 2), q % 2)

\* The integer the first n bits of a sequence denote.
RECURSIVE BitsValue(_, _)
BitsValue(bits, n) ==
    IF n = 0 THEN 0 ELSE 2 * BitsValue(bits, n - 1) + bits[n]

\* The bits of a sequence of w-bit limbs.
LimbBits(limbs, w) ==
    SubSeq([i \in 1..(Len(limbs) * w) |->
               (limbs[((i - 1) \div w) + 1]
                    \div (2 ^ (w - 1 - ((i - 1) % w)))) % 2],
           1, Len(limbs) * w)

\* A bit sequence as w-bit limbs, padded with zeros on the left.
Padded(bits, w) ==
    SubSeq([i \in 1..((w - (Len(bits) % w)) % w) |-> 0],
           1, (w - (Len(bits) % w)) % w) \o bits

Limbs(bits, w) ==
    SubSeq([j \in 1..(Len(Padded(bits, w)) \div w) |->
               BitsValue(SubSeq(Padded(bits, w), (j - 1) * w + 1, j * w), w)],
           1, Len(Padded(bits, w)) \div w)

\* A bit sequence without its leading zeros.
Significant(bits) ==
    IF \A i \in 1..Len(bits) : bits[i] = 0 THEN <<>>
    ELSE SubSeq(bits,
                CHOOSE i \in 1..Len(bits) :
                    bits[i] = 1 /\ \A j \in 1..(i - 1) : bits[j] = 0,
                Len(bits))

\* bits + 1; one bit longer when every bit was 1.
Increment(bits) ==
    IF \A i \in 1..Len(bits) : bits[i] = 1
    THEN <<1>> \o SubSeq([i \in 1..Len(bits) |-> 0], 1, Len(bits))
    ELSE SubSeq([i \in 1..Len(bits) |->
                    IF \E j \in (i + 1)..Len(bits) : bits[j] = 0
                    THEN bits[i]
                    ELSE 1 - bits[i]], 1, Len(bits))

\* Round to nearest, ties to even, at 53 significant bits.  sticky tells
\* that the exact value has non-zero bits beyond those given.
RoundedUp(top, exp) ==
    IF Len(Increment(top)) > 53
    THEN [bits |-> SubSeq(Increment(top), 1, 53), exp |-> exp + 1]
    ELSE [bits |-> Increment(top), exp |-> exp]

RoundToDouble(bits, exp, sticky) ==
    IF Len(bits) <= 53 THEN [bits |-> bits, exp |-> exp]
    ELSE IF /\ bits[54] = 1
            /\ \/ sticky
               \/ \E i \in 55..Len(bits) : bits[i] = 1
               \/ bits[53] = 1
         THEN RoundedUp(SubSeq(bits, 1, 53), exp + Len(bits) - 53)
         ELSE [bits |-> SubSeq(bits, 1, 53), exp |-> exp + Len(bits) - 53]

\* Binary long division of r / den (r < den), 11 bits at a time: the
\* first n limbs of the fraction, and the remainder after them.
RECURSIVE FractionLimbs(_, _, _)
FractionLimbs(r, den, n) ==
    IF n = 0 THEN <<>>
    ELSE <<(r * 2048) \div den>>
         \o FractionLimbs((r * 2048) % den, den, n - 1)

RECURSIVE FractionRest(_, _, _)
FractionRest(r, den, n) ==
    IF n = 0 THEN r ELSE FractionRest((r * 2048) % den, den, n - 1)

\* Limbs enough for 54 significant bits of any num / den >= 1 / den.
FractionLength(den) == ((54 + Len(Binary(den))) \div 11) + 1

\* float(run) for num / den > 0: the nearest double.
ToDouble(num, den) ==
    RoundToDouble(
        Significant(Binary(num \div den)
                    \o LimbBits(FractionLimbs(num % den, den,
                                              FractionLength(den)), 11)),
        0 - 11 * FractionLength(den),
        FractionRest(num % den, den, FractionLength(den)) # 0)

\* The exact product of 10-bit limbs 1..n and a small integer k with
\* carry c coming in from below: the low limbs, and the carry out.
RECURSIVE TimesLow(_, _, _, _)
TimesLow(limbs, n, k, c) ==
    IF n = 0 THEN <<>>
    ELSE Append(TimesLow(limbs, n - 1, k, (limbs[n] * k + c) \div 1024),
                (limbs[n] * k + c) % 1024)

RECURSIVE TimesCarry(_, _, _, _)
TimesCarry(limbs, n, k, c) ==
    IF n = 0 THEN c
    ELSE TimesCarry(limbs, n - 1, k, (limbs[n] * k + c) \div 1024)

Times(limbs, k) ==
    Significant(Binary(TimesCarry(limbs, Len(limbs), k, 0))
                \o LimbBits(TimesLow(limbs, Len(limbs), k, 0), 10))

\* value * k in double arithmetic: the exact product, rounded once.
Product(d, k) ==
    RoundToDouble(Times(Limbs(d.bits, 10), k), d.exp, FALSE)

\* int(value): the bits above the binary point.
TruncToInt(d) ==
    IF d.exp >= 0 THEN BitsValue(d.bits, Len(d.bits)) * (2 ^ d.exp)
    ELSE IF Len(d.bits) + d.exp <= 0 THEN 0
    ELSE BitsValue(d.bits, Len(d.bits) + d.exp)

\* int(float(run) * k)
Scaled(run, k) ==
    IF Numerator(run) = 0 THEN 0
    ELSE TruncToInt(Product(ToDouble(Numerator(run), Denominator(run)), k))

\* One "if unit in text" block and what follows it: the value when the
\* pattern matches and float() accepts the group, else the rest.
Unit(t, present, m, k, rest) ==
    IF present /\ NotNA(m) /\ IsFloatText(Val(m))
    THEN Some(Scaled(Val(m), k))
    ELSE rest

Plain(t) == Unit(t, TRUE, FirstMatch(t, RunStarts(t)), 1, NA)

Thousand(t) ==
    Unit(t, \E i \in 1..Len(t) : UpperCh(t[i]) = ChK,
         FirstMatch(t, MatchStarts(t, ChK)), 1000, Plain(t))

Million(t) ==
    Unit(t, \E i \in 1..Len(t) : UpperCh(t[i]) = ChM,
         FirstMatch(t, MatchStarts(t, ChM)), 1000000, Thousand(t))

Man(t) ==
    Unit(t, \E i \in 1..Len(t) : t[i] = ChMan,
         FirstMatch(t, MatchStarts(t, ChMan)), 10000, Million(t))

normalize_number(txt) ==
    IF txt = <<>> THEN NA ELSE Man(Cleaned(txt))

\* A text is typed in character by character.
InitNumber ==
    /\ stage = "raw"
    /\ df_raw = <<>>
    /\ df_norm = <<>>
    /\ dup_count = 0
    /\ df_metrics = <<>>
    /\ num_anomalies = 0
    /\ df_summary = <<>>
    /\ anomalies_per_platform = <<>>
    /\ RenderIdle /\ FetcherIdle /\ CollectorIdle /\ NumberIdle

TypeChar ==
    /\ number = Pending
    /\ Len(text) < MaxText
    /\ \E c \in Alphabet : text' = Append(text, c)
    /\ UNCHANGED <<number, pipeline_vars, render_vars, fetcher_vars,
                   collector_vars>>

\* normalize_number(text)
NormalizeNumber ==
    /\ number = Pending
    /\ number' = normalize_number(text)
    /\ UNCHANGED <<text, pipeline_vars, render_vars, fetcher_vars,
                   collector_vars>>

NextNumber == TypeChar \/ NormalizeNumber

SpecNumber == InitNumber /\ [][NextNumber]_vars

\* ================================================================= claims
\* The raw records after field coercion and timestamp construction, in
\* input order, before any deduplication.
Canon(raw) == WithTimestamp(ensure_columns(raw))

TripleOf(r) == <<r.platform, r.song_id, r.timestamp>>

ValidTriples(canon) ==
    {TripleOf(canon[i]) :
        i \in {j \in 1..Len(canon) : NotNA(canon[j].timestamp)}}

TriplesOf(out) == {TripleOf(out[i]) : i \in 1..Len(out)}

DistinctTriples(out) ==
    \A i, j \in 1..Len(out) : i # j => TripleOf(out[i]) # TripleOf(out[j])

NumValid(canon) ==
    Cardinality({i \in 1..Len(canon) : NotNA(canon[i].timestamp)})

\* The raw records whose canonical record has a timestamp, in input order.
ValidOf(raw, canon) ==
    SelectRows(raw, [i \in 1..Len(raw) |-> NotNA(canon[i].timestamp)], 1)

\* The raw records whose timestamp parses, in input order.
ValidOnly(raw) == ValidOf(raw, Canon(raw))

OnePerTriple(out, canon) ==
    /\ DistinctTriples(out)
    /\ TriplesOf(out) = ValidTriples(canon)

\* C1: after normalize the output holds exactly one record per distinct
\* (source, item_id, timestamp) triple of the input records with a valid
\* timestamp: no triple twice, no triple missing.
C1_OneRecordPerTriple ==
    stage # "raw" => OnePerTriple(df_norm, Canon(df_raw))

LastWins(out, canon) ==
    /\ DistinctTriples(out)
    /\ \A k \in 1..Len(out) :
          \E i \in 1..Len(canon) :
              /\ canon[i] = out[k]
              /\ \A j \in (i + 1)..Len(canon) :
                    TripleOf(canon[j]) # TripleOf(out[k])

\* C2: of the raw records that collide on one (source, item_id, timestamp)
\* triple, the record normalize keeps is the last one in input order, and
\* it keeps no other record of that triple.
C2_LastRecordWins ==
    stage # "raw" => LastWins(df_norm, Canon(df_raw))

CollisionsCounted(count, out, canon, validRaw) ==
    /\ count = NumValid(canon) - Len(out)
    /\ \A res \in normalize(validRaw) : count = res.dup

\* C3: the collision count is the number of records discarded as
\* non-winning duplicates, and records rejected for an invalid timestamp do
\* not change it: the count is that of the same input without them.
C3_RejectedRecordsNotCounted ==
    stage # "raw" =>
        CollisionsCounted(dup_count, df_norm, Canon(df_raw), ValidOnly(df_raw))

SortedStrictly(out) ==
    \A i \in 1..(Len(out) - 1) :
        \/ StrLess(out[i].platform, out[i + 1].platform)
        \/ /\ out[i].platform = out[i + 1].platform
           /\ StrLess(out[i].song_id, out[i + 1].song_id)
        \/ /\ out[i].platform = out[i + 1].platform
           /\ out[i].song_id = out[i + 1].song_id
           /\ NotNA(out[i].timestamp)
           /\ NotNA(out[i + 1].timestamp)
           /\ Val(out[i].timestamp) < Val(out[i + 1].timestamp)

\* C4: the output of normalize is sorted ascending by (source, item_id,
\* timestamp), and consecutive records of one (source, item_id) group have
\* strictly increasing timestamps.
C4_SortedStrictlyIncreasing ==
    stage # "raw" => SortedStrictly(df_norm)

Reordered(out, canon) ==
    /\ Len(out) = 3
    /\ out # canon
    /\ SameGroup(out[1], out[2])
    /\ ~SameGroup(out[2], out[3])

\* Three records survive, two of them of one group, and they are returned
\* in another order than they were read.
C4_Witness ==
    stage = "norm" /\ Reordered(df_norm, Canon(df_raw))

\* ------------------------------------------------- claims on add_metrics
\* Row p is the record immediately before row q in q's group.
IsPred(m, p, q) ==
    /\ p < q
    /\ SameGroup(m[p], m[q])
    /\ \A k \in (p + 1)..(q - 1) : ~SameGroup(m[k], m[q])

IsFirstOfGroup(m, q) == \A p \in 1..(q - 1) : ~SameGroup(m[p], m[q])

DeltaIs(delta, cur, prev) ==
    /\ (NotNA(cur) /\ NotNA(prev)) => delta = Some(Val(cur) - Val(prev))
    /\ (IsNA(cur) \/ IsNA(prev)) => delta = NA

DeltasFromPredecessor(m) ==
    \A q \in 1..Len(m) : \A p \in 1..(q - 1) :
        IsPred(m, p, q) =>
            /\ Val(m[p].timestamp) <= Val(m[q].timestamp)
            /\ DeltaIs(m[q].delta_plays, m[q].total_plays, m[p].total_plays)
            /\ DeltaIs(m[q].delta_listeners, m[q].total_listeners,
                       m[p].total_listeners)

\* C5: for every record after the first of a group in timestamp order,
\* delta_<counter> is its value minus the value of the record immediately
\* before it in the group, absent when either value is absent.
C5_DeltaFromPredecessor ==
    stage \in {"metrics", "summary"} => DeltasFromPredecessor(df_metrics)

DeltaCases(m) ==
    /\ \E q \in 1..Len(m) : m[q].delta_plays = Some(-20)
    /\ \E q \in 1..Len(m) :
          /\ ~IsFirstOfGroup(m, q)
          /\ IsNA(m[q].delta_plays)
          /\ NotNA(m[q].delta_listeners)

\* One record with delta_plays = 80 - 100, and one record that has a
\* predecessor but no delta_plays because a plays value is absent.
C5_Witness ==
    stage = "metrics" /\ DeltaCases(df_metrics)

NoDerivedFields(r) ==
    /\ IsNA(r.delta_plays)
    /\ IsNA(r.delta_listeners)
    /\ IsNA(r.delta_minutes)
    /\ IsNA(r.rate_plays_per_min)
    /\ IsNA(r.rate_listeners_per_min)

GroupBoundaries(m) ==
    /\ \A q \in 1..Len(m) : IsFirstOfGroup(m, q) => NoDerivedFields(m[q])
    /\ \A q \in 1..Len(m) : \A p \in 1..(q - 1) :
          IsPred(m, p, q) =>
              m[q].delta_minutes
                  = Some(Val(m[q].timestamp) - Val(m[p].timestamp))

\* C6: the first record of every group has no delta, no elapsed time and no
\* rate, whatever groups come before it, and the elapsed time of any other
\* record is measured from the preceding record of its own group.
C6_NoDeltaAcrossGroups ==
    stage \in {"metrics", "summary"} => GroupBoundaries(df_metrics)

SecondGroupStarts(m) ==
    /\ Len(m) = 3
    /\ IsPred(m, 1, 2)
    /\ IsFirstOfGroup(m, 3)
    /\ m[3].total_plays # m[2].total_plays
    /\ m[3].timestamp # m[2].timestamp
    /\ NotNA(m[2].total_plays)
    /\ NotNA(m[3].total_plays)

\* A group of two records followed by the first record of another group
\* that has other counter values and another timestamp.
C6_Witness ==
    stage = "metrics" /\ SecondGroupStarts(df_metrics)

RateIs(rate, delta, minutes) ==
    /\ NotNA(rate) <=> (NotNA(minutes) /\ Val(minutes) > 0 /\ NotNA(delta))
    /\ NotNA(rate) =>
          /\ rate[2] > 0
          /\ rate[1] * Val(minutes) = Val(delta) * rate[2]

RatesGuarded(m) ==
    \A q \in 1..Len(m) :
        /\ RateIs(m[q].rate_plays_per_min, m[q].delta_plays,
                  m[q].delta_minutes)
        /\ RateIs(m[q].rate_listeners_per_min, m[q].delta_listeners,
                  m[q].delta_minutes)

\* C7: rate_<counter>_per_min is present iff delta_minutes > 0 and the
\* delta is present, and then it is delta / delta_minutes; a zero interval
\* gives an absent rate.
C7_RateGuard ==
    stage \in {"metrics", "summary"} => RatesGuarded(df_metrics)

ZeroAndPositiveInterval(m) ==
    /\ \E q \in 1..Len(m) :
          /\ m[q].delta_minutes = Some(0)
          /\ NotNA(m[q].delta_plays)
          /\ Val(m[q].delta_plays) # 0
          /\ IsNA(m[q].rate_plays_per_min)
    /\ \E q \in 1..Len(m) :
          /\ m[q].delta_minutes = Some(10)
          /\ m[q].rate_plays_per_min = <<2, 1>>

\* One record at the timestamp of its predecessor, with a nonzero delta
\* and no rate; one record ten minutes after its predecessor with 20 more
\* plays and a rate of 2 per minute.
C7_Witness ==
    stage = "metrics" /\ ZeroAndPositiveInterval(df_metrics)

Decreased(cur, prev) == NotNA(cur) /\ NotNA(prev) /\ Val(cur) < Val(prev)

NegativeDelta(delta) == NotNA(delta) /\ Val(delta) < 0

FlagIsNegativeDelta(m, count) ==
    /\ \A q \in 1..Len(m) :
          m[q].is_anomaly_negative_diff
              <=> (NegativeDelta(m[q].delta_plays)
                   \/ NegativeDelta(m[q].delta_listeners))
    /\ \A q \in 1..Len(m) :
          m[q].is_anomaly_negative_diff
              <=> \E p \in 1..(q - 1) :
                     /\ IsPred(m, p, q)
                     /\ \/ Decreased(m[q].total_plays, m[p].total_plays)
                        \/ Decreased(m[q].total_listeners,
                                     m[p].total_listeners)
    /\ count = Cardinality({q \in 1..Len(m) : m[q].is_anomaly_negative_diff})

\* C8: is_anomaly_negative_diff is true iff some counter's delta on the
\* record is present and strictly negative, so a group whose counters never
\* decrease from one record to the next has no anomaly.
C8_AnomalyIffNegativeDelta ==
    stage \in {"metrics", "summary"}
        => FlagIsNegativeDelta(df_metrics, num_anomalies)

FlaggedAndUnflagged(m) ==
    /\ \E q \in 1..Len(m) :
          /\ m[q].is_anomaly_negative_diff
          /\ m[q].delta_plays = Some(20)
          /\ m[q].delta_listeners = Some(-10)
    /\ \E q \in 1..Len(m) :
          /\ ~m[q].is_anomaly_negative_diff
          /\ m[q].delta_plays = Some(0)
          /\ m[q].delta_listeners = Some(0)

\* One record flagged for its listeners alone (its plays went up), and one
\* record with both deltas equal to zero that is not flagged.
C8_Witness ==
    stage = "metrics" /\ FlaggedAndUnflagged(df_metrics)

CanonicalPart(r) ==
    [platform |-> r.platform, song_id |-> r.song_id,
     timestamp |-> r.timestamp, total_plays |-> r.total_plays,
     total_listeners |-> r.total_listeners]

Occurrences(rows, c) ==
    Cardinality({i \in 1..Len(rows) : CanonicalPart(rows[i]) = c})

SameRecords(input, m) ==
    /\ Len(m) = Len(input)
    /\ \A i \in 1..Len(input) :
          Occurrences(m, input[i]) = Occurrences(input, input[i])

RECURSIVE SumPoints(_, _)
SumPoints(summary, i) ==
    IF i > Len(summary) THEN 0
    ELSE summary[i].num_points + SumPoints(summary, i + 1)

\* C9: add_metrics returns exactly the records it was given, each as many
\* times as it was given, with the same source, item_id, timestamp and
\* counter values, and build_summary_table counts all of them.
C9_AnomaliesOnlyFlagged ==
    /\ stage \in {"metrics", "summary"} => SameRecords(df_norm, df_metrics)
    /\ stage = "summary" => SumPoints(df_summary, 1) = Len(df_norm)

AnomalyKept(input, m, summary) ==
    /\ Len(input) = 3
    /\ \E q \in 1..Len(m) :
          /\ m[q].is_anomaly_negative_diff
          /\ m[q].delta_plays = Some(-20)
          /\ m[q].total_plays = Some(80)
    /\ \E i \in 1..Len(summary) : summary[i].num_points >= 2

\* Three records given, one of them with plays fallen from 100 to 80: it is
\* returned flagged with its 80 plays, and counted in its group's points.
C9_Witness ==
    stage = "summary" /\ AnomalyKept(df_norm, df_metrics, df_summary)

GroupKeysOf(rows) == {GroupKey(rows[i]) : i \in 1..Len(rows)}

SummaryCounts(m, summary) ==
    /\ GroupKeysOf(summary) = GroupKeysOf(m)
    /\ Len(summary) = Cardinality(GroupKeysOf(m))
    /\ \A i \in 1..Len(summary) :
          /\ summary[i].num_points
                = Cardinality({q \in 1..Len(m) :
                                  GroupKey(m[q]) = GroupKey(summary[i])})
          /\ summary[i].num_anomalies_negative_diff
                = Cardinality({q \in 1..Len(m) :
                                  /\ GroupKey(m[q]) = GroupKey(summary[i])
                                  /\ m[q].is_anomaly_negative_diff})

\* C10: build_summary_table emits exactly one SummaryRecord per distinct
\* (source, item_id) group; its num_points is the number of records of the
\* group and its num_anomalies_negative_diff the number of flagged ones.
C10_OneSummaryPerGroup ==
    stage = "summary" => SummaryCounts(df_metrics, df_summary)

TwoGroupsSummarised(summary) ==
    /\ Len(summary) = 2
    /\ \E i \in 1..2 :
          /\ summary[i].num_points = 2
          /\ summary[i].num_anomalies_negative_diff = 1
    /\ \E i \in 1..2 :
          /\ summary[i].num_points = 1
          /\ summary[i].num_anomalies_negative_diff = 0

\* Two groups: one of two records, the second of them flagged, and one of
\* a single record.
C10_Witness ==
    stage = "summary" /\ TwoGroupsSummarised(df_summary)

ZeroIfAbsent(x) == IF IsNA(x) THEN 0 ELSE Val(x)

NetWithAbsentAsZero(summary) ==
    \A i \in 1..Len(summary) :
        /\ summary[i].net_plays
              = Some(ZeroIfAbsent(summary[i].last_total_plays)
                        - ZeroIfAbsent(summary[i].first_total_plays))
        /\ summary[i].net_listeners
              = Some(ZeroIfAbsent(summary[i].last_total_listeners)
                        - ZeroIfAbsent(summary[i].first_total_listeners))

\* C11: in every SummaryRecord net_plays is last_total_plays minus
\* first_total_plays and net_listeners is last_total_listeners minus
\* first_total_listeners, an absent endpoint counting as zero in the
\* subtraction.
C11_NetIsLastMinusFirst ==
    stage = "summary" => NetWithAbsentAsZero(df_summary)

\* The indices of the records of group k for which column col is present.
PresentIn(m, k, col) ==
    {q \in 1..Len(m) : GroupKey(m[q]) = k /\ NotNA(m[q][col])}

RECURSIVE DenProduct(_, _, _, _)
DenProduct(m, k, col, q) ==
    IF q > Len(m) THEN 1
    ELSE (IF q \in PresentIn(m, k, col) THEN m[q][col][2] ELSE 1)
         * DenProduct(m, k, col, q + 1)

\* The sum of the present rates of group k, over the denominator den.
RECURSIVE NumSum(_, _, _, _, _)
NumSum(m, k, col, den, q) ==
    IF q > Len(m) THEN 0
    ELSE (IF q \in PresentIn(m, k, col)
          THEN m[q][col][1] * (den \div m[q][col][2]) ELSE 0)
         + NumSum(m, k, col, den, q + 1)

\* avg is the arithmetic mean of the present values of col in group k,
\* and absent when there is none.
IsMeanOfPresent(avg, m, k, col) ==
    IF PresentIn(m, k, col) = {} THEN IsNA(avg)
    ELSE /\ NotNA(avg)
         /\ avg[2] > 0
         /\ avg[1] * Cardinality(PresentIn(m, k, col))
                   * DenProduct(m, k, col, 1)
               = avg[2] * NumSum(m, k, col, DenProduct(m, k, col, 1), 1)

AveragesOverPresentRates(m, summary) ==
    \A i \in 1..Len(summary) :
        /\ IsMeanOfPresent(summary[i].avg_rate_plays_per_min, m,
                           GroupKey(summary[i]), "rate_plays_per_min")
        /\ IsMeanOfPresent(summary[i].avg_rate_listeners_per_min, m,
                           GroupKey(summary[i]), "rate_listeners_per_min")

\* C12: avg_rate_plays_per_min and avg_rate_listeners_per_min of a
\* SummaryRecord are the arithmetic mean of the corresponding rate over
\* exactly the records of the group whose rate is present, and are absent
\* (never zero) when no record of the group has a present rate.
C12_AverageOverPresentRates ==
    stage = "summary" => AveragesOverPresentRates(df_metrics, df_summary)

\* A group whose first record has no rate and whose two other records have
\* different rates, so that the average is none of the rates.
MeanOfTwoRates(m, summary) ==
    \E i \in 1..Len(summary) :
        /\ summary[i].num_points = 3
        /\ Cardinality(PresentIn(m, GroupKey(summary[i]),
                                 "rate_plays_per_min")) = 2
        /\ NotNA(summary[i].avg_rate_plays_per_min)
        /\ \A q \in PresentIn(m, GroupKey(summary[i]),
                              "rate_plays_per_min") :
              m[q].rate_plays_per_min # summary[i].avg_rate_plays_per_min

C12_Witness == stage = "summary" /\ MeanOfTwoRates(df_metrics, df_summary)

IndicesOfGroup(m, k) == {q \in 1..Len(m) : GroupKey(m[q]) = k}

\* Record q is an earliest (latest) record of its group by timestamp.
IsEarliest(m, q) ==
    \A p \in IndicesOfGroup(m, GroupKey(m[q])) :
        Val(m[q].timestamp) <= Val(m[p].timestamp)

IsLatest(m, q) ==
    \A p \in IndicesOfGroup(m, GroupKey(m[q])) :
        Val(m[p].timestamp) <= Val(m[q].timestamp)

BoundariesByTimestamp(m, summary) ==
    \A i \in 1..Len(summary) :
        /\ \E q \in IndicesOfGroup(m, GroupKey(summary[i])) :
              /\ IsEarliest(m, q)
              /\ summary[i].first_timestamp = m[q].timestamp
              /\ summary[i].first_total_plays = m[q].total_plays
              /\ summary[i].first_total_listeners = m[q].total_listeners
        /\ \E q \in IndicesOfGroup(m, GroupKey(summary[i])) :
              /\ IsLatest(m, q)
              /\ summary[i].last_timestamp = m[q].timestamp
              /\ summary[i].last_total_plays = m[q].total_plays
              /\ summary[i].last_total_listeners = m[q].total_listeners
        /\ Val(summary[i].first_timestamp) <= Val(summary[i].last_timestamp)

\* C13: first_timestamp and the first_ counters of a SummaryRecord are the
\* timestamp and counter values of the group's earliest record by
\* timestamp, last_timestamp and the last_ counters those of its latest
\* record (absent where that record's counter is absent), so that
\* first_timestamp <= last_timestamp.
C13_BoundariesByTimestamp ==
    stage = "summary" => BoundariesByTimestamp(df_metrics, df_summary)

\* Three samples of one song given out of time order, with an absent
\* counter on the earliest one.
BoundariesOutOfOrder(input, summary) ==
    /\ Len(input) = 3
    /\ Len(summary) = 1
    /\ Val(input[1].timestamp) > Val(input[2].timestamp)
    /\ Val(input[3].timestamp) < Val(input[2].timestamp)
    /\ summary[1].first_timestamp = input[3].timestamp
    /\ summary[1].last_timestamp = input[1].timestamp
    /\ IsNA(summary[1].first_total_plays)
    /\ NotNA(summary[1].last_total_plays)

C13_Witness == stage = "summary" /\ BoundariesOutOfOrder(df_norm, df_summary)

PlatformsOf(rows) == {rows[i].platform : i \in 1..Len(rows)}

FlaggedOfPlatform(m, p) ==
    Cardinality({q \in 1..Len(m) :
                    m[q].platform = p /\ m[q].is_anomaly_negative_diff})

RECURSIVE SumOverPlatforms(_, _)
SumOverPlatforms(perPlatform, ps) ==
    IF ps = {} THEN 0
    ELSE perPlatform[CHOOSE p \in ps : TRUE]
         + SumOverPlatforms(perPlatform, ps \ {CHOOSE p \in ps : TRUE})

AnomaliesAddUp(m, num, summary, perPlatform) ==
    /\ DOMAIN perPlatform = PlatformsOf(summary)
    /\ \A p \in DOMAIN perPlatform :
          /\ perPlatform[p] = SumAnomalies(summary, p, 1)
          /\ perPlatform[p] = FlaggedOfPlatform(m, p)
    /\ SumOverPlatforms(perPlatform, DOMAIN perPlatform) = num
    /\ num = Cardinality({q \in 1..Len(m) : m[q].is_anomaly_negative_diff})

\* C14: the per-source anomaly mapping of build_summary_table gives, for
\* each source, the sum of num_anomalies_negative_diff over that source's
\* SummaryRecords; summed over all sources it equals the global anomaly
\* count returned by add_metrics, which is the number of records flagged
\* is_anomaly_negative_diff.
C14_AnomaliesAddUp ==
    stage = "summary"
        => AnomaliesAddUp(df_metrics, num_anomalies, df_summary,
                          anomalies_per_platform)

\* A source with two groups, the first of them holding the anomaly.
TwoGroupsOneSource(summary, perPlatform) ==
    /\ Len(summary) = 2
    /\ summary[1].platform = summary[2].platform
    /\ summary[1].num_anomalies_negative_diff = 1
    /\ summary[2].num_anomalies_negative_diff = 0
    /\ perPlatform[summary[1].platform] = 1

C14_Witness ==
    stage = "summary" /\ TwoGroupsOneSource(df_summary, anomalies_per_platform)

\* Record i is the last record of the batch with its dedup key.
WonKey(canon, i) ==
    \A j \in (i + 1)..Len(canon) : KeyOf(canon[j]) # KeyOf(canon[i])

\* Output record k is the record that won the dedup key of record i: a
\* record of the batch with that timestamp and key.
WonKeyOf(out, k, canon, i) ==
    /\ out[k].timestamp = canon[i].timestamp
    /\ KeyOf(out[k]) = KeyOf(canon[i])
    /\ \E j \in 1..Len(canon) : canon[j] = out[k]

OnlyBadRecordsDropped(out, canon, validRaw) ==
    /\ \A k \in 1..Len(out) : NotNA(out[k].timestamp)
    /\ \A i \in 1..Len(canon) :
          IF NotNA(canon[i].timestamp)
          THEN \E k \in 1..Len(out) : WonKeyOf(out, k, canon, i)
          ELSE \A k \in 1..Len(out) : out[k] # canon[i]
    /\ \E res \in normalize(validRaw) : out = res.df

\* C15: after normalize no output record has an absent timestamp; every
\* record whose date, hour and minute give no timestamp is dropped, the
\* record that won the dedup key of a record with a valid timestamp is
\* returned, and the output is one the same batch without the unparsable
\* records can give, so a bad record never removes a valid one.
C15_OnlyBadRecordsDropped ==
    stage = "norm"
        => OnlyBadRecordsDropped(df_norm, Canon(df_raw), ValidOnly(df_raw))

\* A record with a malformed date loaded between two valid records, both
\* of which are returned.
BadBetweenValid(raw, out, canon) ==
    /\ Len(raw) = 3
    /\ NotNA(canon[1].timestamp)
    /\ IsNA(canon[2].timestamp)
    /\ NotNA(canon[3].timestamp)
    /\ Len(out) = 2

C15_Witness ==
    stage = "norm" /\ BadBetweenValid(df_raw, df_norm, Canon(df_raw))

\* What the claim expects of a raw hour and of a raw counter: a number
\* (given as such or as digits) is kept, anything else is 0 resp. absent.
ExpectedHour(x) == IF x = Some(9) \/ x = Text(Str9) THEN 9 ELSE 0

ExpectedCounter(x) == IF x = Some(100) THEN Some(100) ELSE NA

DefectsRecovered(raw, out) ==
    /\ \A i \in 1..Len(raw) :
          IF raw[i].date = "2025-12-17"
          THEN \E k \in 1..Len(out) :
                  /\ out[k].hour = ExpectedHour(raw[i].hour)
                  /\ out[k].timestamp
                        = Some(ExpectedHour(raw[i].hour) * 60 + 10)
                  /\ WonKey(Canon(raw), i)
                        => out[k].total_plays
                              = ExpectedCounter(raw[i].total_plays)
          ELSE \A k \in 1..Len(out) : out[k].date # raw[i].date
    /\ \A k \in 1..Len(out) : NotNA(out[k].timestamp)

\* C16: field-level defects never raise and are recovered locally: a
\* missing or unparsable counter becomes absent, a missing or non-numeric
\* hour becomes 0, a malformed date gives an absent timestamp (the record
\* is rejected), and the other records of the batch are still processed.
C16_DefectsRecoveredLocally ==
    /\ stage # "error"
    /\ stage = "norm" => DefectsRecovered(df_raw, df_norm)

EmptyStr == <<>>

MissingBecomesEmpty(raw, out, canon) ==
    \A i \in 1..Len(raw) :
        (/\ IsNA(raw[i].platform)
         /\ NotNA(canon[i].timestamp)
         /\ WonKey(canon, i))
            => \E k \in 1..Len(out) :
                  /\ out[k].platform = EmptyStr
                  /\ out[k].timestamp = canon[i].timestamp
                  /\ out[k].total_plays = canon[i].total_plays

\* C17: for every raw record in which a required descriptive field (here
\* the source) is missing, the corresponding field of the canonical
\* record produced by normalize is the empty string.
C17_MissingFieldIsEmptyString ==
    stage = "norm" => MissingBecomesEmpty(df_raw, df_norm, Canon(df_raw))

\* C18 as stated: normalize returns an empty result if and only if its
\* input collection is empty, and for an empty input the collision count
\* is 0.
C18_EmptyIffInputEmpty ==
    stage = "norm"
        => /\ (df_norm = <<>>) <=> (df_raw = <<>>)
           /\ df_raw = <<>> => dup_count = 0

EmptyIffNothingValid(raw, out, count, canon) ==
    /\ (out = <<>>) <=> (\A i \in 1..Len(raw) : IsNA(canon[i].timestamp))
    /\ raw = <<>> => out = <<>> /\ count = 0

\* C18 amended: the result of normalize is empty if and only if no record
\* of its input has a valid timestamp, which includes the empty input; for
\* an empty input it is the empty sequence with collision count 0.
C18_EmptyIffNoValidRecord ==
    stage = "norm"
        => EmptyIffNothingValid(df_raw, df_norm, dup_count, Canon(df_raw))

\* A batch of two records with malformed dates that collide on their key:
\* the result is empty although the input is not, and the count is 1.
AllRejected(raw, out, count) ==
    /\ Len(raw) = 2
    /\ out = <<>>
    /\ count = 1

C18_Witness == stage = "norm" /\ AllRejected(df_raw, df_norm, dup_count)

\* C19: normalize applied to the output of normalize returns the same
\* records in the same order, with collision count 0.
C19_NormalizeIdempotent ==
    [][(stage = "norm" /\ stage' = "renorm")
          => (df_norm' = df_norm /\ dup_count' = 0)]_vars

\* The first pass put the two records of the batch in a new order; the
\* second pass returned them as they were.
SecondPassOfReordered(raw, out, count) ==
    /\ Len(raw) = 2
    /\ Len(out) = 2
    /\ out[1].timestamp = Canon(raw)[2].timestamp
    /\ out[2].timestamp = Canon(raw)[1].timestamp
    /\ out[1].timestamp # out[2].timestamp
    /\ count = 0

C19_Witness ==
    stage = "renorm" /\ SecondPassOfReordered(df_raw, df_norm, dup_count)

\* The raw records of group k, in input order.
Restrict(raw, canon, k) ==
    SelectRows(raw, [i \in 1..Len(raw) |-> GroupKey(canon[i]) = k], 1)

\* What the three stages produce for group k is what they produce for the
\* batch that holds the records of k only.  Two inputs with the same
\* records of k in the same order have the same such batch.
SameAsAlone(raw, canon, k, out, m, summary) ==
    /\ RowsOfGroup(out, k) = TheResult(normalize(Restrict(raw, canon, k))).df
    /\ RowsOfGroup(m, k)
          = add_metrics(
                TheResult(normalize(Restrict(raw, canon, k))).df).df
    /\ RowsOfGroup(summary, k)
          = TheResult(build_summary_table(add_metrics(
                TheResult(normalize(Restrict(raw, canon, k))).df).df)).summary

\* C20: the canonical records, metric records and SummaryRecord produced
\* for a (source, item_id) group by normalize, add_metrics and
\* build_summary_table depend only on the records of that group and their
\* relative order, whatever records of other groups the input contains.
C20_GroupIndependence ==
    stage = "summary"
        => \A k \in GroupKeysOf(Canon(df_raw)) :
              SameAsAlone(df_raw, Canon(df_raw), k, df_norm, df_metrics,
                          df_summary)

\* Records i > j of the batch agree on source, item_id and timestamp.
RepeatsTriple(canon, i) ==
    \E j \in 1..(i - 1) : TripleOf(canon[j]) = TripleOf(canon[i])

OnlyEqualTriplesMerged(out, count, canon) ==
    /\ count = Cardinality({i \in 1..Len(canon) : RepeatsTriple(canon, i)})
    /\ \A i \in 1..Len(canon) :
          NotNA(canon[i].timestamp)
             => \E k \in 1..Len(out) : GroupKey(out[k]) = GroupKey(canon[i])

\* C26: normalize treats two raw records as duplicates of one another only
\* if their string-coerced source, their string-coerced item_id and their
\* timestamp are each equal: the collision count is the number of records
\* that repeat the triple of an earlier record, and every (source, item_id)
\* pair with a valid record keeps a record, for any source and item_id
\* strings.
C26_OnlyEqualTriplesMerged ==
    stage = "norm" => OnlyEqualTriplesMerged(df_norm, dup_count, Canon(df_raw))

\* The records removed by the timestamp filter: those without timestamp
\* that were the last of their dedup key.
RemovedForTimestamp(canon) ==
    Cardinality({i \in 1..Len(canon) :
                    IsNA(canon[i].timestamp) /\ WonKey(canon, i)})

RecordsConserved(raw, out, count, canon) ==
    /\ Len(raw) = Len(out) + count + RemovedForTimestamp(canon)
    /\ (\A i \in 1..Len(canon) : NotNA(canon[i].timestamp))
          => Len(out) + count = Len(raw)

\* C27: for every non-empty input of normalize the number of input
\* records is the number of output records plus the collision count plus
\* the number of records removed for an absent timestamp; when every
\* timestamp parses, output length plus collision count is the input
\* length.
C27_RecordConservation ==
    (stage = "norm" /\ df_raw # <<>>)
        => RecordsConserved(df_raw, df_norm, dup_count, Canon(df_raw))

\* One record lost to a collision, one to the timestamp filter, one kept.
OneOfEach(raw, out, count, canon) ==
    /\ Len(raw) = 3
    /\ Len(out) = 1
    /\ count = 1
    /\ RemovedForTimestamp(canon) = 1

C27_Witness ==
    stage = "norm" /\ OneOfEach(df_raw, df_norm, dup_count, Canon(df_raw))

Counters == {"total_plays", "total_listeners"}

\* Record p is the nearest record before q in q's group on which counter
\* col is present (the metric records are in time order within a group).
NearestPresentBefore(m, p, q, col) ==
    /\ p < q
    /\ GroupKey(m[p]) = GroupKey(m[q])
    /\ NotNA(m[p][col])
    /\ \A x \in (p + 1)..(q - 1) :
          GroupKey(m[x]) = GroupKey(m[q]) => IsNA(m[x][col])

Lower(m, p, q, col) ==
    NotNA(m[p][col]) /\ NotNA(m[q][col]) /\ Val(m[q][col]) < Val(m[p][col])

\* C28: a record whose counter is present and lower than at the
\* nearest earlier record of its group where the counter is present is
\* flagged is_anomaly_negative_diff, also when records with an absent
\* value lie in between.
C28_EveryDecreaseFlagged ==
    stage # "norm"
        => \A q \in 1..Len(df_metrics) : \A col \in Counters :
              (\E p \in 1..(q - 1) :
                  /\ NearestPresentBefore(df_metrics, p, q, col)
                  /\ Lower(df_metrics, p, q, col))
                 => df_metrics[q].is_anomaly_negative_diff

\* The sum of column col over the records of group k, absent values
\* skipped (Series.sum()).
RECURSIVE SumOfColumn(_, _, _, _)
SumOfColumn(m, k, col, q) ==
    IF q > Len(m) THEN 0
    ELSE (IF GroupKey(m[q]) = k /\ NotNA(m[q][col]) THEN Val(m[q][col]) ELSE 0)
         + SumOfColumn(m, k, col, q + 1)

PresentThroughout(m, k, col) ==
    \A q \in 1..Len(m) : GroupKey(m[q]) = k => NotNA(m[q][col])

Telescopes(m, s) ==
    /\ PresentThroughout(m, GroupKey(s), "total_plays")
          => s.net_plays
                = Some(SumOfColumn(m, GroupKey(s), "delta_plays", 1))
    /\ PresentThroughout(m, GroupKey(s), "total_listeners")
          => s.net_listeners
                = Some(SumOfColumn(m, GroupKey(s), "delta_listeners", 1))
    /\ Val(s.last_timestamp) - Val(s.first_timestamp)
          = SumOfColumn(m, GroupKey(s), "delta_minutes", 1)

\* C30: for every group in which a counter is present on every record,
\* net_<counter> of the SummaryRecord is the sum of delta_<counter> over
\* the group's records, and last_timestamp minus first_timestamp in
\* minutes is the sum of the group's delta_minutes.
C30_Telescoping ==
    stage = "summary"
        => \A i \in 1..Len(df_summary) : Telescopes(df_metrics, df_summary[i])

\* A series of three samples on which both counters are present, plays
\* rising by 20 and listeners falling by 10 over 15 minutes.
ThreeSamples(summary) ==
    /\ Len(summary) = 1
    /\ summary[1].num_points = 3
    /\ summary[1].net_plays = Some(20)
    /\ summary[1].net_listeners = Some(-10)
    /\ Val(summary[1].last_timestamp) - Val(summary[1].first_timestamp) = 15

C30_Witness == stage = "summary" /\ ThreeSamples(df_summary)

\* ------------------------------------------------------------------- C21
\* C21: no stage changes the table it is given.  Across a step that is a
\* call of normalize, add_metrics or build_summary_table which returns,
\* the object the caller passed in holds the same records, with the same
\* fields, in the same order as before the call, and the table returned
\* is another object than the one passed in.
InputsKept ==
    /\ (stage = "raw" /\ stage' = "norm")
          => /\ df_raw' = df_raw
             /\ NormalizeReturn(df_raw, df_norm').df # Call(df_raw).df
             /\ TableOf(NormalizeReturn(df_raw, df_norm')) = df_norm'
    /\ (stage = "norm" /\ stage' = "metrics")
          => /\ df_norm' = df_norm
             /\ AddMetricsFrame(df_norm).df # Call(df_norm).df
             /\ TableOf(AddMetricsFrame(df_norm)) = df_metrics'
    /\ (stage = "metrics" /\ stage' = "summary")
          => /\ df_metrics' = df_metrics
             /\ SummaryReturn(df_metrics, df_summary').df
                   # Call(df_metrics).df
             /\ TableOf(SummaryReturn(df_metrics, df_summary')) = df_summary'

C21_StagesKeepTheirInput == [][InputsKept]_vars

\* All three stages have run on a batch of which normalize had to complete
\* the columns and add_metrics had to add its own: written into the objects
\* the caller holds, those columns would have changed both tables.
C21_Witness ==
    /\ stage = "summary"
    /\ Len(df_raw) = MaxDefective
    /\ df_metrics # <<>>
    /\ CallerTable(NormalizeColumns(Call(df_raw))) # df_raw
    /\ CallerTable(WriteRates(WriteDeltas(Call(df_norm)))) # df_norm

\* ------------------------------------------------------------------- C22
\* The records left for rendering: those normalize keeps whose platform and
\* song_id equal the arguments that were given and are not empty.
RemainingOf(df, a) ==
    SelectRows(df, [i \in 1..Len(df) |->
                       /\ (a.platform \in {NA, Some(<<>>)}
                              \/ df[i].platform = a.platform[1])
                       /\ (a.song_id \in {NA, Some(<<>>)}
                              \/ df[i].song_id = a.song_id[1])], 1)

Remaining(raw, a) == RemainingOf(TheResult(normalize(raw)).df, a)

NothingToRender(raw, a) ==
    raw = <<>> \/ Remaining(raw, a) = <<>>

\* C22: when the loaded input is empty, or no record is left after
\* normalization and the platform / song filters, the render operation
\* returns normally and has written no PNG chart, no HTML report and no
\* summary CSV; so output exists only when that record set is not empty.
C22_NoOutputWithoutRecords ==
    (/\ render_args # <<>>
     /\ ~Raises(df_raw)
     /\ NothingToRender(df_raw, render_args[1]))
        => (stage = "returned" /\ written = {})

\* Charts and reports were asked for, the input has valid records, and the
\* song filter removed all of them.
C22_Witness ==
    /\ stage = "returned"
    /\ render_args # <<>>
    /\ render_args[1].export_png /\ render_args[1].export_html
    /\ TheResult(normalize(df_raw)).df # <<>>
    /\ SelectedPlatform(TheResult(normalize(df_raw)).df,
                        render_args[1].platform) # <<>>
    /\ Remaining(df_raw, render_args[1]) = <<>>
    /\ written = {}

\* ------------------------------------------------------------------- C24
\* The strategies a call invoked, in order.
Strategies(e) ==
    [i \in 1..Len(e.calls) |-> e.calls[i][1]]

RequestsRaised(e) ==
    \E i \in 1..Len(e.calls) : e.calls[i] = <<"requests", FALSE>>

UsedPlaywright(e) ==
    \E i \in 1..Len(e.calls) : e.calls[i][1] = "playwright"

StrategyOrder(mode, e) ==
    /\ mode = "auto" =>
          /\ e.calls[1][1] = "requests"
          /\ UsedPlaywright(e) <=> RequestsRaised(e)
          /\ UsedPlaywright(e) => Strategies(e) = <<"requests", "playwright">>
    /\ mode = "requests" =>
          /\ Strategies(e) = <<"requests">>
          /\ RequestsRaised(e) => e.result = "raised"
    /\ mode = "playwright" =>
          Strategies(e) = <<"playwright">>

\* C24: in auto mode every fetch_html call tries requests first and calls
\* the Playwright strategy exactly when the requests attempt raised; in
\* requests mode a failure is the result of the call and nothing else is
\* tried; in playwright mode requests is never tried.
C24_StrategyOrder ==
    \A n \in 1..Len(fetch_log) : StrategyOrder(fetcher_mode, fetch_log[n])

\* An auto-mode Fetcher that served one call with requests alone, fell back
\* to Playwright successfully in another and failed with both in a third.
C24_Witness ==
    /\ fetcher_mode = "auto"
    /\ \E n \in 1..Len(fetch_log) :
           fetch_log[n].calls = << <<"requests", TRUE>> >>
    /\ \E n \in 1..Len(fetch_log) :
           /\ fetch_log[n].calls = << <<"requests", FALSE>>,
                                      <<"playwright", TRUE>> >>
           /\ fetch_log[n].result = "html"
    /\ \E n \in 1..Len(fetch_log) :
           /\ fetch_log[n].calls = << <<"requests", FALSE>>,
                                      <<"playwright", FALSE>> >>
           /\ fetch_log[n].result = "raised"

\* ------------------------------------------------------------------- C25
\* The number of processed targets with the given outcome.
RECURSIVE CountOutcome(_, _, _)
CountOutcome(done, outcome, n) ==
    IF n = 0 THEN 0
    ELSE CountOutcome(done, outcome, n - 1)
         + (IF done[n].outcome = outcome THEN 1 ELSE 0)

\* The sum of one counter over the platforms of platform_stats.
RECURSIVE SumPlatforms(_, _, _)
SumPlatforms(ps, counter, platforms) ==
    IF platforms = {} THEN 0
    ELSE LET p == CHOOSE q \in platforms : TRUE
         IN  ps[p][counter] + SumPlatforms(ps, counter, platforms \ {p})

EveryTargetCountedOnce(st, ts, done) ==
    /\ st.total = Len(ts)
    /\ Len(done) = Len(ts)
    /\ st.success = CountOutcome(done, "success", Len(done))
    /\ st.failed = CountOutcome(done, "failed", Len(done))
    /\ st.skipped = CountOutcome(done, "skipped", Len(done))
    /\ st.success + st.failed + st.skipped = st.total
    /\ SumPlatforms(st.platform_stats, "success", DOMAIN st.platform_stats)
          = st.success
    /\ SumPlatforms(st.platform_stats, "failed", DOMAIN st.platform_stats)
          = st.failed
    /\ \A i \in 1..Len(done) : done[i].raised => done[i].outcome = "failed"

\* C25: when collect_metrics returns normally every target was counted
\* exactly once: success + failed + skipped = total, the per-platform
\* success and failed counters add up to the global ones, and a target
\* whose collection raised is counted as failed while all later targets are
\* still processed.
C25_EveryTargetCountedOnce ==
    collect_state = "returned"
        => EveryTargetCountedOnce(stats, targets, processed)

\* A returned run in which a collection raised and later targets were
\* collected and skipped.
C25_Witness ==
    /\ collect_state = "returned"
    /\ Len(targets) = 3
    /\ processed[1].raised
    /\ processed[2].outcome = "success"
    /\ processed[3].outcome = "skipped"

\* ------------------------------------------------------------------- C29
\* C29: when collect_metrics has returned or raised, close() has been
\* called on every Fetcher it created: the main one and every Playwright
\* fallback Fetcher, also when the fallback collection raised.
C29_EveryFetcherClosed ==
    collect_state \in {"returned", "raised"}
        => \A i \in 1..Len(fetchers) : fetchers[i].closed

\* ------------------------------------------------------------------- C23
\* A digit string with thousands commas: digits and commas, with a digit.
IsDigitString(t) ==
    /\ \A i \in 1..Len(t) : IsDigitCh(t[i]) \/ t[i] = ChComma
    /\ \E i \in 1..Len(t) : IsDigitCh(t[i])

\* A number followed by a unit: digits with at most one dot, then the unit.
IsNumberWithUnit(t, unit) ==
    /\ Len(t) >= 2
    /\ t[Len(t)] = unit
    /\ \A i \in 1..(Len(t) - 1) : IsNumCh(t[i])
    /\ IsFloatText(SubSeq(t, 1, Len(t) - 1))

HasNoDigit(t) ==
    \A i \in 1..Len(t) : ~IsDigitCh(t[i])

NumberOf(t) == SubSeq(t, 1, Len(t) - 1)

NumberAsClaimed(t, n) ==
    /\ IsDigitString(t) =>
          n = Some(DigitsValue(SelectSeq(t, IsDigitCh),
                               Len(SelectSeq(t, IsDigitCh))))
    /\ IsNumberWithUnit(t, ChMan) =>
          n = Some((Numerator(NumberOf(t)) * 10000)
                       \div Denominator(NumberOf(t)))
    /\ IsNumberWithUnit(t, ChM) =>
          n = Some((Numerator(NumberOf(t)) * 1000000)
                       \div Denominator(NumberOf(t)))
    /\ IsNumberWithUnit(t, ChK) =>
          n = Some((Numerator(NumberOf(t)) * 1000)
                       \div Denominator(NumberOf(t)))
    /\ HasNoDigit(t) => n = NA

\* C23: normalize_number returns the integer value of a digit string with
\* its thousands commas removed, the number times 10000, 1000000 or 1000
\* truncated to an integer for a number followed by the unit man, M or K,
\* and None for the empty string and for a text without any digit.
C23_NumberAsClaimed ==
    number # Pending => NumberAsClaimed(text, number)

====
